---- MODULE Spec2Model ----
(***************************************************************************)
(* A model of the storage library's core: StoredObject / ObjectStorage     *)
(* (src/py/storage/objects.py), Index / IndexStorage                       *)
(* (src/py/storage/index.py) and the MemoryBackend                         *)
(* (src/py/storage/backends/memory.py).                                    *)
(*                                                                         *)
(* Python dictionaries are functions whose DOMAIN is the set of keys       *)
(* present; lists and tuples are sequences.  A physical object is an       *)
(* instance number of Inst; the heap maps every instance number to the     *)
(* object stored there, or to Free.                                        *)
(***************************************************************************)
EXTENDS Integers, Sequences, FiniteSets, TLC

VARIABLES
    heap,       \* instance number -> the StoredObject living there, or Free
    cache,      \* ObjectStorage._cache: storage key -> instance (weak values)
    syncQueue,  \* ObjectStorage._syncQueue: storage key -> instance (weak values)
    backend,    \* ObjectStorage.backend (MemoryBackend.values): key -> export
    forward,    \* IndexStorage.forwardBackend: index key -> list of signatures
    backward,   \* IndexStorage.backwardBackend: signature -> list of index keys
    meta,       \* whether the meta entry __index__.lastUpdate has been written
    last,       \* the operation that has just run, and what it returned
    saved,      \* history: storage key -> the value its latest save() exported,
                \* for the keys not removed since
    written,    \* history: storage key -> the value last exported to the backend
                \* (by save() or sync()), for the keys not removed since
    latest,     \* index history: signature -> key list of its latest add/update
    pc,         \* threads: thread -> position in ObjectStorage.get
    lock,       \* threads: owner of ObjectStorage.lock (0: nobody)
    stack,      \* restoration: the call stack of nested constructors
    constructed, \* restoration: storage key -> number of constructor calls
                \* since the application's get began
    STORAGE,    \* class -> the ObjectStorage the class is bound to (0: None)
    declaredClasses, \* storage -> the classes in its _declaredClasses
    relations,  \* relations: oid -> the Relation `knows` of the object
    object,     \* timestamps: one StoredObject, its _isNew, value and _updates
    now,        \* timestamps: the clock read by getTimestamp
    kind,       \* backends: the class of the backend under test
    store,      \* backends: what the backend holds (its dictionary, database
                \* or directory): serialized key or path -> stored data
    plain,      \* backends: the plain map the backend is compared with
    backends,   \* MultiBackend.backends: the members, in constructor order
    readBackend, \* MultiBackend._readBackend: a member's position (0: None)
    fileBackend, \* MultiBackend._fileBackend: a member's position (0: None)
    dirs,       \* DirectoryBackend: the directories that exist; `store` holds
                \* the files
    COLLECTION, \* class -> the COLLECTION attribute the class itself has
    INDEXES     \* class -> the INDEXES list the class itself has

\* the variables of the backends
backendVars == <<kind, store, plain, backends, readBackend, fileBackend, dirs>>

\* the class attributes
classVars == <<COLLECTION, INDEXES>>

\* the variables of the relations, of the timestamps, of the backends and of
\* the class attributes
fieldVars == <<relations, object, now, backendVars, classVars>>

vars == <<heap, cache, syncQueue, backend, forward, backward, meta, last,
          saved, written, latest, pc, lock, stack, constructed, STORAGE,
          declaredClasses, relations, object, now, backendVars, classVars>>

(***************************************************************************)
(* Bounds                                                                  *)
(***************************************************************************)
\* the number of physical objects that can be alive at the same time
MaxInst == 2

Inst == 1 .. MaxInst
NoInst == 0

\* object identifiers and the values of the property `value`
Oids == {"o1", "o2"}
Values == {1, 10}

\* the longest key list an extractor returns
MaxKeys == 2
\* the threads that call ObjectStorage.get
MaxThreads == 2
\* the nested constructor calls the interpreter allows (its recursion limit)
MaxDepth == 3
\* the ObjectStorage instances of the process
MaxStorages == 2
\* the longest list of values a relation is given or grows to
MaxValues == 2
\* the latest time of the clock, and the greatest explicit timestamp
MaxTime == 3
Storages == 1 .. MaxStorages
NoStorage == NoInst
Threads == 1 .. MaxThreads
\* the index keys: those ByValue and ByValueMany extract from 0 .. 19
IndexKeySet == {-1, 0, 1}

(***************************************************************************)
(* Dictionaries                                                            *)
(***************************************************************************)
EmptyDict == [x \in {} |-> 0]
Put(d, k, v) == [x \in (DOMAIN d) \cup {k} |-> IF x = k THEN v ELSE d[x]]
Del(d, k) == [x \in (DOMAIN d) \ {k} |-> d[x]]

\* the elements of a sequence
Elems(s) == {s[n] : n \in DOMAIN s}

(***************************************************************************)
(* MemoryBackend                                                           *)
(***************************************************************************)
MemoryAdd(values, key, data) == Put(values, key, data)
MemoryUpdate(values, key, data) == Put(values, key, data)
\* del self.values[key] raises KeyError when the key is absent
MemoryRemoveRaises(values, key) == key \notin DOMAIN values
MemoryRemove(values, key) == Del(values, key)
MemoryHas(values, key) == key \in DOMAIN values

(***************************************************************************)
(* StoredObject                                                            *)
(***************************************************************************)
ClassName == "Value"
\* StoredObject.StorageKey: collection + "." + oid
StorageKey(oid) == <<ClassName, oid>>
Keys == {StorageKey(o) : o \in Oids}

\* no StoredObject has been constructed
NoObject == [constructed |-> FALSE]

\* the StoredObject classes, and the binding after storage.use(Value) on the
\* first storage
Classes == {ClassName, "AutoIndexValue"}
BoundSTORAGE == [c \in Classes |-> IF c = ClassName THEN 1 ELSE NoStorage]
BoundClasses == [st \in Storages |-> IF st = 1 THEN {ClassName} ELSE {}]
NoKey == <<"-", "-">>

\* restored is the argument of that name the constructor received: False for
\* an object the application creates, True for one that _restore creates
Free == [live |-> FALSE, oid |-> "-", value |-> 0, restored |-> FALSE]
Object(oid, value) ==
    [live |-> TRUE, oid |-> oid, value |-> value, restored |-> FALSE]

Live == {i \in Inst : heap[i].live}
\* StoredObject.getStorageKey
getStorageKey(o) == StorageKey(o.oid)

\* mutant of export: the property is left out of the export
export_noProperties(o) == [oid |-> o.oid, type |-> ClassName, value |-> 0]

\* StoredObject.export: the primitive written to the backend
export(o) == [oid |-> o.oid, type |-> ClassName, value |-> o.value]

\* the instance number the next constructed object gets: the lowest free one
HasFree(h) == \E i \in Inst : ~h[i].live
NewInst(h) == CHOOSE i \in Inst : ~h[i].live /\ \A j \in Inst : j < i => h[j].live

(***************************************************************************)
(* IndexStorage                                                            *)
(***************************************************************************)
\* Value.ByValue and Value.ByValueMany, the extractors of the index tests
ByValue(value) == value \div 10
ByValueMany(value) == <<value \div 10, 0 - (value \div 10)>>

Without(values, sig) == SelectSeq(values, LAMBDA s : s # sig)

\* mutant of AddStrip: the previous buckets are left as they are
AddStrip_keep(fwd, previous_keys, sig) == fwd

\* mutant of AddStrip: a bucket that becomes empty is stored empty
RECURSIVE AddStrip_storeEmpty(_, _, _)
AddStrip_storeEmpty(fwd, previous_keys, sig) ==
    IF previous_keys = <<>> THEN fwd
    ELSE LET previous_key == Head(previous_keys)
         IN  IF previous_key \in DOMAIN fwd
             THEN AddStrip_storeEmpty(
                      MemoryUpdate(fwd, previous_key, Without(fwd[previous_key], sig)),
                      Tail(previous_keys), sig)
             ELSE AddStrip_storeEmpty(fwd, Tail(previous_keys), sig)

\* IndexStorage.add, first loop: sig is taken out of the buckets of its previous keys
RECURSIVE AddStrip(_, _, _)
AddStrip(fwd, previous_keys, sig) ==
    IF previous_keys = <<>> THEN fwd
    ELSE LET previous_key == Head(previous_keys)
             values       == Without(fwd[previous_key], sig)
         IN  IF previous_key \in DOMAIN fwd
             THEN AddStrip(IF values = <<>> THEN MemoryRemove(fwd, previous_key)
                           ELSE MemoryUpdate(fwd, previous_key, values),
                           Tail(previous_keys), sig)
             ELSE AddStrip(fwd, Tail(previous_keys), sig)

\* IndexStorage.add, second loop: sig is appended to the bucket of each key
RECURSIVE AddAppend(_, _, _)
AddAppend(fwd, keys, sig) ==
    IF keys = <<>> THEN fwd
    ELSE LET key == Head(keys)
         IN  AddAppend(IF MemoryHas(fwd, key)
                       THEN MemoryUpdate(fwd, key, Append(fwd[key], sig))
                       ELSE MemoryAdd(fwd, key, <<sig>>),
                       Tail(keys), sig)

\* mutant of IndexStorageAdd: the backward entry of a known signature keeps
\* its previous keys
IndexStorageAdd_staleBackward(fwd, bwd, sig, keys) ==
    LET stripped == IF MemoryHas(bwd, sig) THEN AddStrip(fwd, bwd[sig], sig) ELSE fwd
    IN  [forward  |-> AddAppend(stripped, keys, sig),
         backward |-> IF MemoryHas(bwd, sig) THEN bwd
                      ELSE MemoryAdd(bwd, sig, keys)]

\* IndexStorage.add(sig, keys): the forward and backward backends afterwards
IndexStorageAdd(fwd, bwd, sig, keys) ==
    LET stripped == IF MemoryHas(bwd, sig) THEN AddStrip(fwd, bwd[sig], sig) ELSE fwd
    IN  [forward  |-> AddAppend(stripped, keys, sig),
         backward |-> IF MemoryHas(bwd, sig) THEN MemoryUpdate(bwd, sig, keys)
                      ELSE MemoryAdd(bwd, sig, keys)]

\* IndexStorage.update(sig, key) is add
IndexStorageUpdate(fwd, bwd, sig, keys) == IndexStorageAdd(fwd, bwd, sig, keys)

\* mutant of RemoveStrip: only the first previous key is purged
RemoveStrip_first(fwd, previous_keys, sig) ==
    IF previous_keys = <<>> THEN fwd
    ELSE LET previous_key == Head(previous_keys)
             present      == previous_key \in DOMAIN fwd
             values       == IF present THEN Without(fwd[previous_key], sig) ELSE <<>>
         IN  IF values = <<>>
             THEN (IF present THEN MemoryRemove(fwd, previous_key) ELSE fwd)
             ELSE MemoryUpdate(fwd, previous_key, values)

\* IndexStorage.remove, the loop over the previous keys
RECURSIVE RemoveStrip(_, _, _)
RemoveStrip(fwd, previous_keys, sig) ==
    IF previous_keys = <<>> THEN fwd
    ELSE LET previous_key == Head(previous_keys)
             present      == previous_key \in DOMAIN fwd
             values       == IF present THEN Without(fwd[previous_key], sig) ELSE <<>>
         IN  RemoveStrip(IF values = <<>>
                         THEN (IF present THEN MemoryRemove(fwd, previous_key) ELSE fwd)
                         ELSE MemoryUpdate(fwd, previous_key, values),
                         Tail(previous_keys), sig)

\* IndexStorage.remove(sig)
IndexStorageRemove(fwd, bwd, sig) ==
    IF MemoryHas(bwd, sig)
    THEN [forward  |-> RemoveStrip(fwd, bwd[sig], sig),
          backward |-> MemoryRemove(bwd, sig)]
    ELSE [forward |-> fwd, backward |-> bwd]

\* Index.get(key, restore=False): the signatures listed under a key
IndexGet(fwd, key) == IF key \in DOMAIN fwd THEN fwd[key] ELSE <<>>

\* Index.getIndexKey for the index registered on Value (extractor ByValue);
\* IndexStorage.add wraps a key that is no tuple into a one-element tuple
IndexKeys(o) == <<ByValue(o.value)>>

(***************************************************************************)
(* ObjectStorage.  S is the state of the storage, of its class's index and *)
(* of the heap; each method is the state it leaves.                        *)
(***************************************************************************)
State == [heap |-> heap, cache |-> cache, syncQueue |-> syncQueue,
          backend |-> backend, forward |-> forward, backward |-> backward,
          meta |-> meta]

\* mutant of register: a new object is indexed as soon as it is registered
register_indexing(S, i, restored) ==
    LET key == getStorageKey(S.heap[i])
        idx == IndexStorageAdd(S.forward, S.backward, key, IndexKeys(S.heap[i]))
    IN  [S EXCEPT !.syncQueue = IF restored THEN @ ELSE Put(@, key, i),
                  !.cache = Put(@, key, i),
                  !.forward = IF restored THEN @ ELSE idx.forward,
                  !.backward = IF restored THEN @ ELSE idx.backward]

\* ObjectStorage.register
register(S, i, restored) ==
    LET key == getStorageKey(S.heap[i])
    IN  [S EXCEPT !.syncQueue = IF restored THEN @ ELSE Put(@, key, i),
                  !.cache = Put(@, key, i)]

\* StoredObject.__init__ on a class bound to the storage: the object is
\* populated, then registers itself
construct(S, oid, value, restored) ==
    LET i == NewInst(S.heap)
    IN  register([S EXCEPT !.heap[i] = [Object(oid, value) EXCEPT !.restored = restored]],
                 i, restored)

\* ObjectStorage.has
has(S, key) == key \in DOMAIN S.cache \/ MemoryHas(S.backend, key)

\* ObjectStorage.add, then Index.add / Index.update and Index.save on the
\* index of the class
add(S, i, creation) ==
    LET o   == S.heap[i]
        key == getStorageKey(o)
        idx == IF creation
               THEN IndexStorageAdd(S.forward, S.backward, key, IndexKeys(o))
               ELSE IndexStorageUpdate(S.forward, S.backward, key, IndexKeys(o))
    IN  [S EXCEPT !.backend = IF creation THEN MemoryAdd(@, key, export(o))
                              ELSE MemoryUpdate(@, key, export(o)),
                  !.cache = Put(@, key, i),
                  !.forward = idx.forward,
                  !.backward = idx.backward,
                  !.meta = TRUE]

\* ObjectStorage.create and ObjectStorage.update
create(S, i) == add(S, i, TRUE)
update(S, i) == add(S, i, FALSE)

\* StoredObject.save: which of create and update it takes, and its effect
savePath(S, i) == IF has(S, getStorageKey(S.heap[i])) THEN "update" ELSE "create"
save(S, i) == IF savePath(S, i) = "update" THEN update(S, i) ELSE create(S, i)

\* ObjectStorage._restore, then the end of _get: the class is instantiated
\* from the export (restored=True), which registers the new object
restore(S, key) ==
    LET S1 == construct(S, S.backend[key].oid, S.backend[key].value, TRUE)
    IN  [S1 EXCEPT !.cache = Put(@, key, NewInst(S.heap))]

\* ObjectStorage.get: the state afterwards, and the instance returned
getHit(S, key) == key \in DOMAIN S.cache
getState(S, key) ==
    IF getHit(S, key) \/ ~MemoryHas(S.backend, key) THEN S ELSE restore(S, key)
getResult(S, key) ==
    IF getHit(S, key) THEN S.cache[key]
    ELSE IF MemoryHas(S.backend, key) THEN NewInst(S.heap) ELSE NoInst

\* the last strong reference to an object is dropped: the object is freed
\* and its entries leave the weak dictionaries
release(S, i) ==
    LET keep(d) == [k \in {x \in DOMAIN d : d[x] # i} |-> d[k]]
    IN  [S EXCEPT !.heap[i] = Free, !.cache = keep(@), !.syncQueue = keep(@)]

\* ObjectStorage.uncache
uncache(S, key) ==
    LET S1 == IF key \in DOMAIN S.cache THEN save(S, S.cache[key]) ELSE S
    IN  [S1 EXCEPT !.cache = Del(@, key)]

\* mutant of removeEntries: the index entries of the object are left
removeEntries_keepIndex(S, key, indexed) == [S EXCEPT !.cache = Del(@, key)]

\* ObjectStorage.remove up to backend.remove: the cache entry is deleted and
\* the index entries of the object are removed
removeEntries(S, key, indexed) ==
    LET idx == IF indexed THEN IndexStorageRemove(S.forward, S.backward, key)
               ELSE [forward |-> S.forward, backward |-> S.backward]
    IN  [S EXCEPT !.cache = Del(@, key),
                  !.forward = idx.forward,
                  !.backward = idx.backward,
                  !.meta = @ \/ indexed]
\* ObjectStorage.remove: backend.remove raises on a key the backend lacks
removeRaises(S, key) == MemoryRemoveRaises(S.backend, key)
\* ObjectStorage.remove: onRemove is called on the object, if one was given or
\* found by get, once backend.remove has returned
onRemoveCalls(S, key, found) ==
    IF removeRaises(S, key) \/ ~found THEN 0 ELSE 1
remove(S, key, indexed) ==
    LET S1 == removeEntries(S, key, indexed)
    IN  IF removeRaises(S, key) THEN S1
        ELSE [S1 EXCEPT !.backend = MemoryRemove(@, key)]

\* ObjectStorage.sync: every object of the sync queue is written with update
sync(S) ==
    [S EXCEPT !.backend = [k \in (DOMAIN @) \cup (DOMAIN S.syncQueue) |->
                              IF k \in DOMAIN S.syncQueue
                              THEN export(S.heap[S.syncQueue[k]])
                              ELSE @[k]]]

(***************************************************************************)
(* The operations of an application on one ObjectStorage holding the class *)
(* Value, whose index uses the extractor ByValue.                          *)
(***************************************************************************)
\* no backend is under test, no MultiBackend has been constructed and no
\* class attribute is looked at
NoBackends ==
    /\ kind = "-"
    /\ store = << >>
    /\ plain = << >>
    /\ backends = <<>>
    /\ readBackend = 0
    /\ fileBackend = 0
    /\ dirs = {}
    /\ COLLECTION = << >>
    /\ INDEXES = << >>

Apply(S) ==
    /\ heap' = S.heap
    /\ cache' = S.cache
    /\ syncQueue' = S.syncQueue
    /\ backend' = S.backend
    /\ forward' = S.forward
    /\ backward' = S.backward
    /\ meta' = S.meta

\* what `last` records of a get (the instance returned, and whether the cache
\* held the key) and of a save (the object saved, the path save took, whether
\* the backend held the key before, and whether the index listed the object
\* under other keys before); it records nothing of the other operations
NoOp == [op |-> "-", inst |-> NoInst, hit |-> FALSE, path |-> "-",
         stored |-> FALSE, moved |-> FALSE, key |-> NoKey, found |-> FALSE,
         raised |-> FALSE, hooks |-> 0, update |-> FALSE,
         differs |-> FALSE]
GetOp(inst, hit) == [NoOp EXCEPT !.op = "get", !.inst = inst, !.hit = hit]
SaveOp(inst, path, stored, moved) ==
    [NoOp EXCEPT !.op = "save", !.inst = inst, !.path = path,
                 !.stored = stored, !.moved = moved]
\* a remove of key: whether an object was found for it, whether the backend
\* held it, whether backend.remove raised, and the calls of onRemove
RemoveOp(S, key, found) ==
    [NoOp EXCEPT !.op = "remove", !.key = key, !.found = found,
                 !.stored = MemoryHas(S.backend, key),
                 !.raised = removeRaises(S, key),
                 !.hooks = onRemoveCalls(S, key, found)]

\* StoredObject.Import: the state afterwards. The object that Get finds is
\* returned, and set() is called on it only with updateProperties; without
\* one the constructor is called with the primitive, restored left at False
importState_alwaysSet(S, oid, v, upd) ==
    LET key == StorageKey(oid)
        S1  == getState(S, key)
        obj == getResult(S, key)
    IN  IF obj # NoInst
        THEN [S1 EXCEPT !.heap[obj].value = v]
        ELSE construct(S1, oid, v, FALSE)
importState(S, oid, v, upd) ==
    LET key == StorageKey(oid)
        S1  == getState(S, key)
        obj == getResult(S, key)
    IN  IF obj # NoInst
        THEN (IF upd THEN [S1 EXCEPT !.heap[obj].value = v] ELSE S1)
        ELSE construct(S1, oid, v, FALSE)
\* StoredObject.Import: the instance returned
importResult(S, key) ==
    IF getResult(S, key) # NoInst THEN getResult(S, key) ELSE NewInst(S.heap)
\* the value that Get finds for key: the one of the cached object, or the one
\* of the backend's export
foundValue(S, key) ==
    IF getHit(S, key) THEN S.heap[S.cache[key]].value ELSE S.backend[key].value
\* an Import of key: the instance returned, whether the cache held the key,
\* whether Get found an object, whether updateProperties was given, whether
\* the primitive carried another value than the object found
ImportOp(S, key, v, upd) ==
    [NoOp EXCEPT !.op = "import", !.key = key, !.inst = importResult(S, key),
                 !.hit = getHit(S, key), !.found = getResult(S, key) # NoInst,
                 !.stored = MemoryHas(S.backend, key), !.update = upd,
                 !.differs = getResult(S, key) # NoInst /\ v # foundValue(S, key)]

otherVars == <<latest, pc, lock, stack, constructed, STORAGE, declaredClasses,
               fieldVars>>

\* Value(oid, value=v)
New(oid, v) ==
    /\ HasFree(heap)
    /\ Apply(construct(State, oid, v, FALSE))
    /\ last' = NoOp
    /\ UNCHANGED <<saved, written, otherVars>>

\* Value.Import({oid, value}, updateProperties=upd)
Import(oid, v, upd) ==
    /\ getHit(State, StorageKey(oid)) \/ HasFree(heap)
    /\ Apply(importState(State, oid, v, upd))
    /\ last' = ImportOp(State, StorageKey(oid), v, upd)
    /\ UNCHANGED <<saved, written, otherVars>>

\* Value.Get(oid), ObjectStorage.get(key)
Get(key) ==
    /\ getHit(State, key) \/ ~MemoryHas(backend, key) \/ HasFree(heap)
    /\ Apply(getState(State, key))
    /\ last' = GetOp(getResult(State, key), getHit(State, key))
    /\ UNCHANGED <<saved, written, otherVars>>

\* o.value = v (StoredObject.setProperty)
setProperty(i, v) ==
    /\ heap[i].live
    /\ heap' = [heap EXCEPT ![i].value = v]
    /\ last' = NoOp
    /\ UNCHANGED <<cache, syncQueue, backend, forward, backward, meta, saved, written,
                   otherVars>>

\* o.save()
Save(i) ==
    LET key == getStorageKey(heap[i])
    IN  /\ heap[i].live
        /\ Apply(save(State, i))
        /\ saved' = Put(saved, key, heap[i].value)
        /\ written' = Put(written, key, heap[i].value)
        /\ last' = SaveOp(i, savePath(State, i), MemoryHas(backend, key),
                          /\ key \in DOMAIN backward
                          /\ backward[key] # IndexKeys(heap[i]))
        /\ UNCHANGED otherVars

\* storage.uncache(key)
Uncache(key) ==
    /\ Apply(uncache(State, key))
    /\ saved' = IF key \in DOMAIN cache THEN Put(saved, key, heap[cache[key]].value)
                ELSE saved
    /\ written' = IF key \in DOMAIN cache
                  THEN Put(written, key, heap[cache[key]].value) ELSE written
    /\ last' = NoOp
    /\ UNCHANGED otherVars

\* o.remove(), storage.remove(o)
Remove(i) ==
    LET key == getStorageKey(heap[i])
    IN  /\ heap[i].live
        /\ Apply(remove(State, key, TRUE))
        /\ saved' = Del(saved, key)
        /\ written' = Del(written, key)
        /\ last' = RemoveOp(State, key, TRUE)
        /\ UNCHANGED otherVars

\* storage.remove(key): the object is looked up with get, and an object restored
\* for the purpose is freed when remove returns
RemoveKey(key) ==
    /\ Apply(remove(State, key, has(State, key)))
    /\ saved' = Del(saved, key)
    /\ written' = Del(written, key)
    /\ last' = RemoveOp(State, key, has(State, key))
    /\ UNCHANGED otherVars

\* the application drops its reference to an object
Drop(i) ==
    /\ heap[i].live
    /\ Apply(release(State, i))
    /\ last' = NoOp
    /\ UNCHANGED <<saved, written, otherVars>>

\* storage.sync()
Sync ==
    /\ Apply(sync(State))
    /\ written' = [k \in (DOMAIN written) \cup (DOMAIN syncQueue) |->
                      IF k \in DOMAIN syncQueue THEN heap[syncQueue[k]].value
                      ELSE written[k]]
    /\ last' = [NoOp EXCEPT !.op = "sync"]
    /\ UNCHANGED <<saved, otherVars>>

Init ==
    /\ heap = [i \in Inst |-> Free]
    /\ cache = EmptyDict
    /\ syncQueue = EmptyDict
    /\ backend = EmptyDict
    /\ forward = EmptyDict
    /\ backward = EmptyDict
    /\ meta = FALSE
    /\ last = NoOp
    /\ saved = EmptyDict
    /\ written = EmptyDict
    /\ latest = EmptyDict
    /\ pc = EmptyDict
    /\ lock = 0
    /\ stack = <<>>
    /\ constructed = EmptyDict
    /\ STORAGE = BoundSTORAGE
    /\ declaredClasses = BoundClasses
    /\ relations = EmptyDict
    /\ object = NoObject
    /\ now = 0
    /\ NoBackends

Next ==
    \/ \E oid \in Oids, v \in Values : New(oid, v)
    \/ \E oid \in Oids, v \in Values, upd \in BOOLEAN : Import(oid, v, upd)
    \/ \E key \in Keys : Get(key)
    \/ \E i \in Inst, v \in Values : setProperty(i, v)
    \/ \E i \in Inst : Save(i)
    \/ \E key \in Keys : Uncache(key)
    \/ \E i \in Inst : Remove(i)
    \/ \E key \in Keys : RemoveKey(key)
    \/ \E i \in Inst : Drop(i)
    \/ Sync

Spec == Init /\ [][Next]_vars

(***************************************************************************)
(* Claims on the object storage (specification Spec)                       *)
(***************************************************************************)
\* the number of times sig is listed in a bucket
Count(values, sig) == Len(SelectSeq(values, LAMBDA s : s = sig))

\* C1: at most one live StoredObject instance exists per storage key, and a
\* get that returns an object returns that instance.
C1_OneInstancePerKey ==
    /\ \A i, j \in Live : getStorageKey(heap[i]) = getStorageKey(heap[j]) => i = j
    /\ last.op = "get" /\ last.inst # NoInst =>
           \A j \in Live : getStorageKey(heap[j]) = getStorageKey(heap[last.inst])
                               => j = last.inst

C3_FirstSaveCreates ==
    last.op = "save" => (last.path = "create" <=> ~last.stored)

\* C8: right after an object is saved, its signature is listed exactly once
\* under the key extracted from its current value and under no other key.
C8_IndexFollowsSave ==
    last.op = "save" =>
        LET o   == heap[last.inst]
            sig == getStorageKey(o)
            key == ByValue(o.value)
        IN  /\ Count(IndexGet(forward, key), sig) = 1
            /\ \A k \in DOMAIN forward : k # key => sig \notin Elems(forward[k])

\* C8 witness: the only live object, listed under another key, has been saved.
C8_Witness == last.op = "save" /\ last.moved /\ Cardinality(Live) = 1

\* C10: a step that constructs an object, imports one, reads one, sets a
\* property, drops a reference or syncs leaves the index untouched: the
\* index changes only in a save, an uncache (which saves) or a remove.
C10_IndexOnlyOnStore ==
    [][\/ UNCHANGED <<forward, backward, meta>>
       \/ \E i \in Inst : Save(i) \/ Remove(i)
       \/ \E key \in Keys : Uncache(key) \/ RemoveKey(key)]_vars

\* C10 witness: an object has been constructed and never stored: it is not in
\* the backend, and the index, which lists another object, does not list it.
C10_Witness ==
    \E i \in Live :
        /\ getStorageKey(heap[i]) \notin DOMAIN backend
        /\ getStorageKey(heap[i]) \notin DOMAIN backward
        /\ backward # EmptyDict

\* C11: right after a remove of an object the backend held, given as the
\* object or as its key, the key is neither in the cache nor in the backend,
\* no index key lists its signature, has is false, get returns nothing, and
\* onRemove was called once, backend.remove having returned.
C11_RemoveSaved ==
    last.op = "remove" /\ last.stored =>
        /\ last.key \notin DOMAIN cache
        /\ last.key \notin DOMAIN backend
        /\ \A k \in DOMAIN forward : last.key \notin Elems(forward[k])
        /\ last.key \notin DOMAIN backward
        /\ ~has(State, last.key)
        /\ getResult(State, last.key) = NoInst
        /\ ~last.raised /\ last.hooks = 1

\* C11 witness: an object that was stored and indexed has been removed, while
\* the index still lists another object.
C11_Witness ==
    /\ last.op = "remove" /\ last.stored /\ last.hooks = 1
    /\ last.key \notin DOMAIN saved
    /\ backward # EmptyDict

\* C12: a remove of an object that is registered and that the backend does
\* not hold returns without raising and leaves has false and get empty.
C12_RemoveUnsaved ==
    last.op = "remove" /\ last.found /\ ~last.stored =>
        /\ ~last.raised
        /\ ~has(State, last.key)
        /\ getResult(State, last.key) = NoInst

C20_ImportedNotEnqueued ==
    (last.op = "import" /\ ~last.found) =>
        /\ cache[last.key] = last.inst
        /\ last.key \notin DOMAIN syncQueue

\* C21: when sync() has returned, the backend holds, under its key, the
\* current export of every live object that was registered as new
\* (restored False).
C21_SyncStoresEveryNew ==
    last.op = "sync" =>
        \A i \in Live :
            ~heap[i].restored =>
                /\ MemoryHas(backend, getStorageKey(heap[i]))
                /\ backend[getStorageKey(heap[i])] = export(heap[i])

\* C37: every object that the backend holds has its storage key listed in
\* the index of its class under the key extracted from the value stored,
\* whichever operation wrote it.
C37_StoredIsIndexed ==
    \A key \in DOMAIN backend :
        key \in Elems(IndexGet(forward, ByValue(backend[key].value)))

\* C38: a sync() that follows the remove() of an object, which the
\* application still holds, does not write the object back: its key stays
\* absent from the backend.
C38_SyncKeepsRemoved ==
    [][(/\ last.op = "remove" /\ last.found /\ ~last.raised
        /\ last'.op = "sync") =>
           ~MemoryHas(backend', last.key)]_vars

(***************************************************************************)
(* The operations on one IndexStorage over two MemoryBackends              *)
(* (specification SpecIndex).  The signatures are the storage keys; a key  *)
(* list is what an extractor returned, such as <<ByValue(v)>> or           *)
(* ByValueMany(v).  `last` records the operation, its signature and what   *)
(* the operation found.                                                    *)
(***************************************************************************)
KeyLists == UNION {[1 .. n -> IndexKeySet] : n \in 0 .. MaxKeys}

previousKeys(sig) == IF sig \in DOMAIN backward THEN backward[sig] ELSE <<>>

\* what `last` records of an operation on sig with the key list keys: whether
\* sig had several different keys before (many), whether a bucket it leaves
\* held nothing else (emptied), and whether it keeps one key and leaves
\* another that a second signature is listed under (shared)
IndexOp(op, sig, keys) ==
    LET prev == Elems(previousKeys(sig))
    IN  [op |-> op, sig |-> sig,
         many |-> Cardinality(prev) > 1,
         emptied |-> \E key \in prev \ Elems(keys) :
                         Without(IndexGet(forward, key), sig) = <<>>,
         shared |-> /\ prev \cap Elems(keys) # {}
                    /\ \E key \in prev \ Elems(keys) :
                           Without(IndexGet(forward, key), sig) # <<>>]
NoIndexOp == [op |-> "-", sig |-> NoKey, many |-> FALSE, emptied |-> FALSE,
              shared |-> FALSE]

objectVars == <<heap, cache, syncQueue, backend, saved, written, pc, lock, stack,
                constructed, STORAGE, declaredClasses, fieldVars>>

\* IndexStorage.add(sig, keys), Index.add(value)
IndexAdd(sig, keys) ==
    LET idx == IndexStorageAdd(forward, backward, sig, keys)
    IN  /\ forward' = idx.forward
        /\ backward' = idx.backward
        /\ latest' = Put(latest, sig, keys)
        /\ last' = IndexOp("add", sig, keys)
        /\ UNCHANGED <<meta, objectVars>>

\* IndexStorage.update(sig, keys), Index.update(value)
IndexUpdate(sig, keys) ==
    LET idx == IndexStorageUpdate(forward, backward, sig, keys)
    IN  /\ forward' = idx.forward
        /\ backward' = idx.backward
        /\ latest' = Put(latest, sig, keys)
        /\ last' = IndexOp("update", sig, keys)
        /\ UNCHANGED <<meta, objectVars>>

\* IndexStorage.remove(sig), Index.remove(value)
IndexRemove(sig) ==
    LET idx == IndexStorageRemove(forward, backward, sig)
    IN  /\ forward' = idx.forward
        /\ backward' = idx.backward
        /\ latest' = Del(latest, sig)
        /\ last' = IndexOp("remove", sig, <<>>)
        /\ UNCHANGED <<meta, objectVars>>

\* IndexStorage.sync(), Index.save(): the meta entry is written
IndexSync ==
    /\ meta' = TRUE
    /\ last' = [NoIndexOp EXCEPT !.op = "sync"]
    /\ UNCHANGED <<forward, backward, latest, objectVars>>

InitIndex ==
    /\ heap = [i \in Inst |-> Free]
    /\ cache = EmptyDict
    /\ syncQueue = EmptyDict
    /\ backend = EmptyDict
    /\ forward = EmptyDict
    /\ backward = EmptyDict
    /\ meta = FALSE
    /\ last = NoIndexOp
    /\ saved = EmptyDict
    /\ written = EmptyDict
    /\ latest = EmptyDict
    /\ pc = EmptyDict
    /\ lock = 0
    /\ stack = <<>>
    /\ constructed = EmptyDict
    /\ STORAGE = BoundSTORAGE
    /\ declaredClasses = BoundClasses
    /\ relations = EmptyDict
    /\ object = NoObject
    /\ now = 0
    /\ NoBackends

NextIndex ==
    \/ \E sig \in Keys, keys \in KeyLists : IndexAdd(sig, keys)
    \/ \E sig \in Keys, keys \in KeyLists : IndexUpdate(sig, keys)
    \/ \E sig \in Keys : IndexRemove(sig)
    \/ IndexSync

SpecIndex == InitIndex /\ [][NextIndex]_vars

\* whether the index lists sig under key
Listed(sig, key) == sig \in Elems(IndexGet(forward, key))

\* C6: sig is listed under key exactly when key is in the key list of the
\* latest add or update of sig and sig has not been removed since.
C6_EntryIffLatestKeys ==
    \A sig \in Keys, key \in IndexKeySet :
        Listed(sig, key) <=> (sig \in DOMAIN latest /\ key \in Elems(latest[sig]))

\* C6 witness: a signature was updated from one key list to another one that
\* overlaps it, and it left a key that another signature is listed under.
C6_Witness ==
    /\ last.op = "update"
    /\ last.shared
    /\ \E key \in IndexKeySet : Listed(last.sig, key)
    /\ \E other \in Keys \ {last.sig}, key \in IndexKeySet :
           Listed(other, key) /\ ~Listed(last.sig, key)

\* C7: right after a remove, the signature is listed under none of the keys
\* it had, however many there were, nor under any other key.
C7_RemovePurgesAllKeys ==
    last.op = "remove" => \A key \in IndexKeySet : ~Listed(last.sig, key)

\* C7 witness: a signature listed under several different keys has been
\* removed.
C7_Witness == last.op = "remove" /\ last.many /\ last.sig \notin DOMAIN backward

\* C9: no bucket of the forward backend is empty.
C9_NoEmptyBucket == \A key \in DOMAIN forward : forward[key] # <<>>

\* C9 witness: an update or a remove took the last signature out of a bucket,
\* and the forward backend lacks a key.
C9_Witness ==
    /\ last.op \in {"update", "remove"}
    /\ last.emptied
    /\ \E key \in IndexKeySet : key \notin DOMAIN forward

(***************************************************************************)
(* Threads calling ObjectStorage.get on one storage (specification         *)
(* SpecThreads).  pc[t] is the position of thread t in get and _get, the   *)
(* key it asked for and the instance it holds; `lock` is the owner of the  *)
(* storage's RLock, or NoThread.  A thread keeps a strong reference to its  *)
(* result until it forgets it.                                             *)
(***************************************************************************)
NoThread == NoInst

Idle == [at |-> "idle", key |-> NoKey, result |-> NoInst, overlap |-> FALSE]

\* mutant of CanAcquire: the lock never blocks
CanAcquire_always(owner, t) == TRUE

\* threading.RLock.acquire returns when the lock is free or already owned by
\* the calling thread
CanAcquire(owner, t) == owner = NoThread \/ owner = t

indexVars == <<syncQueue, forward, backward, meta, last, saved, written, latest, stack,
               constructed, STORAGE, declaredClasses, fieldVars>>

\* a thread calls storage.get(key); `overlap` notes that another thread's
\* call for the same key is in flight and has not looked the key up yet,
\* while the key is in the backend and not in the cache
ThreadCall(t, key) ==
    /\ pc[t].at = "idle"
    /\ pc' = [pc EXCEPT ![t] =
                 [Idle EXCEPT !.at = "acquire", !.key = key,
                              !.overlap = /\ key \notin DOMAIN cache
                                          /\ MemoryHas(backend, key)
                                          /\ \E u \in Threads \ {t} :
                                                 /\ pc[u].at \in {"acquire", "lookup"}
                                                 /\ pc[u].key = key]]
    /\ UNCHANGED <<heap, cache, backend, lock, indexVars>>

\* get: atomic(self.lock) acquires the lock
ThreadAcquire(t) ==
    /\ pc[t].at = "acquire"
    /\ CanAcquire(lock, t)
    /\ lock' = t
    /\ pc' = [pc EXCEPT ![t].at = "lookup"]
    /\ UNCHANGED <<heap, cache, backend, indexVars>>

\* _get: the cache is looked up, then the backend
ThreadLookup(t) ==
    /\ pc[t].at = "lookup"
    /\ pc' = [pc EXCEPT ![t] =
                 IF getHit(State, pc[t].key)
                 THEN [@ EXCEPT !.at = "release", !.result = cache[pc[t].key]]
                 ELSE IF MemoryHas(backend, pc[t].key)
                      THEN [@ EXCEPT !.at = "restore"]
                      ELSE [@ EXCEPT !.at = "release"]]
    /\ UNCHANGED <<heap, cache, backend, lock, indexVars>>

\* _get: _restore instantiates the class, whose constructor registers the
\* object (register takes the lock its thread may already own)
ThreadRestore(t) ==
    /\ pc[t].at = "restore"
    /\ HasFree(heap)
    /\ CanAcquire(lock, t)
    /\ LET key == pc[t].key
           S   == construct(State, backend[key].oid, backend[key].value, TRUE)
       IN  /\ heap' = S.heap
           /\ cache' = S.cache
           /\ pc' = [pc EXCEPT ![t].at = "setcache", ![t].result = NewInst(heap)]
    /\ UNCHANGED <<backend, lock, indexVars>>

\* _get: self._cache[key] = value
ThreadSetCache(t) ==
    /\ pc[t].at = "setcache"
    /\ cache' = Put(cache, pc[t].key, pc[t].result)
    /\ pc' = [pc EXCEPT ![t].at = "release"]
    /\ UNCHANGED <<heap, backend, lock, indexVars>>

\* get: atomic releases the lock and get returns
ThreadRelease(t) ==
    /\ pc[t].at = "release"
    /\ lock' = NoThread
    /\ pc' = [pc EXCEPT ![t].at = "done"]
    /\ UNCHANGED <<heap, cache, backend, indexVars>>

\* the thread forgets its result; an object no thread holds is freed and
\* leaves the weak cache
ThreadForget(t) ==
    /\ pc[t].at = "done"
    /\ pc' = [pc EXCEPT ![t] = Idle]
    /\ LET i == pc[t].result
           S == IF i # NoInst /\ \A u \in Threads \ {t} : pc[u].result # i
                THEN release(State, i) ELSE State
       IN  /\ heap' = S.heap
           /\ cache' = S.cache
    /\ UNCHANGED <<backend, lock, indexVars>>

\* the backend holds any of the objects, the cache is empty
InitThreads ==
    /\ heap = [i \in Inst |-> Free]
    /\ cache = EmptyDict
    /\ syncQueue = EmptyDict
    /\ \E stored \in SUBSET Oids :
           backend = [key \in {StorageKey(oid) : oid \in stored} |->
                          export(Object(key[2], 1))]
    /\ forward = EmptyDict
    /\ backward = EmptyDict
    /\ meta = FALSE
    /\ last = NoOp
    /\ saved = EmptyDict
    /\ written = EmptyDict
    /\ latest = EmptyDict
    /\ pc = [t \in Threads |-> Idle]
    /\ lock = NoThread
    /\ stack = <<>>
    /\ constructed = EmptyDict
    /\ STORAGE = BoundSTORAGE
    /\ declaredClasses = BoundClasses
    /\ relations = EmptyDict
    /\ object = NoObject
    /\ now = 0
    /\ NoBackends

NextThreads ==
    \/ \E t \in Threads, key \in Keys : ThreadCall(t, key)
    \/ \E t \in Threads : ThreadAcquire(t)
    \/ \E t \in Threads : ThreadLookup(t)
    \/ \E t \in Threads : ThreadRestore(t)
    \/ \E t \in Threads : ThreadSetCache(t)
    \/ \E t \in Threads : ThreadRelease(t)
    \/ \E t \in Threads : ThreadForget(t)

SpecThreads == InitThreads /\ [][NextThreads]_vars

\* C4: two threads whose get of the same key have both returned hold the same
\* instance, and no key has two live instances: the object was instantiated
\* once.
C4_ConcurrentGetOnce ==
    /\ \A t, u \in Threads :
           (pc[t].at = "done" /\ pc[u].at = "done" /\ pc[t].key = pc[u].key)
               => pc[t].result = pc[u].result
    /\ \A i, j \in Live : heap[i].oid = heap[j].oid => i = j

\* C4 witness: two gets of a key that was in the backend and not in the
\* cache were in flight together, and both have returned an instance.
C4_Witness ==
    \E t, u \in Threads :
        /\ t # u
        /\ pc[t].at = "done" /\ pc[u].at = "done"
        /\ pc[t].key = pc[u].key
        /\ pc[t].result # NoInst /\ pc[u].result # NoInst
        /\ pc[u].overlap

(***************************************************************************)
(* One thread restoring objects that have a relation `knows` (specification *)
(* SpecRestore).  An export in the backend lists the oids its relation     *)
(* refers to.  `stack` holds one frame per constructor under way: the oid,  *)
(* whether it restores, and the relation elements still to be appended.    *)
(* An object enters the heap when its constructor registers it: before     *)
(* that nothing but its own constructor can reach it.                      *)
(***************************************************************************)
Frame(oid, restored, knows) == [oid |-> oid, restored |-> restored, knows |-> knows]
Top == stack[Len(stack)]
Pop == SubSeq(stack, 1, Len(stack) - 1)
exportKnows(oid, value, knows) ==
    [oid |-> oid, type |-> ClassName, value |-> value, knows |-> knows]
Constructed(key) == IF key \in DOMAIN constructed THEN constructed[key] ELSE 0

threadVars == <<forward, backward, meta, saved, written, latest, pc, lock, STORAGE,
                declaredClasses, fieldVars>>

\* the application calls storage.get(key), which misses the cache: _restore
\* calls the constructor with the export
RestoreGet(key) ==
    /\ stack = <<>>
    /\ ~getHit(State, key)
    /\ MemoryHas(backend, key)
    /\ stack' = <<Frame(backend[key].oid, TRUE, backend[key].knows)>>
    /\ constructed' = Put(EmptyDict, key, 1)
    /\ last' = NoOp
    /\ UNCHANGED <<heap, cache, syncQueue, backend, threadVars>>

\* __init__: set -> setRelation -> Relation.append -> restore -> Import -> Get
\* finds the element in the cache
RestoreAppendHit ==
    /\ stack # <<>>
    /\ Top.knows # <<>>
    /\ getHit(State, StorageKey(Head(Top.knows)))
    /\ stack' = [stack EXCEPT ![Len(stack)].knows = Tail(@)]
    /\ UNCHANGED <<heap, cache, syncQueue, backend, last, constructed, threadVars>>

\* the same chain misses the cache: the element is instantiated, by _restore
\* from the backend's export or else by Import from the reference
RestoreAppendMiss ==
    /\ stack # <<>>
    /\ Top.knows # <<>>
    /\ Len(stack) < MaxDepth
    /\ LET oid == Head(Top.knows)
           key == StorageKey(oid)
       IN  /\ ~getHit(State, key)
           /\ stack' = Append(stack,
                              IF MemoryHas(backend, key)
                              THEN Frame(oid, TRUE, backend[key].knows)
                              ELSE Frame(oid, FALSE, <<>>))
           /\ constructed' = Put(constructed, key, Constructed(key) + 1)
    /\ UNCHANGED <<heap, cache, syncQueue, backend, last, threadVars>>

\* the same chain misses the cache at the deepest call allowed: RecursionError
\* unwinds every constructor under way
RestoreRecursionError ==
    /\ stack # <<>>
    /\ Top.knows # <<>>
    /\ Len(stack) = MaxDepth
    /\ ~getHit(State, StorageKey(Head(Top.knows)))
    /\ stack' = <<>>
    /\ last' = [NoOp EXCEPT !.op = "RecursionError"]
    /\ UNCHANGED <<heap, cache, syncQueue, backend, constructed, threadVars>>

\* __init__ has set its properties and relations and registers the object;
\* the caller's Relation.append, if any, then appends it
RestoreRegister ==
    /\ stack # <<>>
    /\ Top.knows = <<>>
    /\ HasFree(heap)
    /\ LET key   == StorageKey(Top.oid)
           value == IF Top.restored THEN backend[key].value ELSE 0
           S     == construct(State, Top.oid, value, Top.restored)
       IN  /\ heap' = S.heap
           /\ cache' = S.cache
           /\ syncQueue' = S.syncQueue
    /\ stack' = IF Len(stack) = 1 THEN <<>>
                ELSE [Pop EXCEPT ![Len(stack) - 1].knows = Tail(@)]
    /\ UNCHANGED <<backend, last, constructed, threadVars>>

\* the application drops every object it holds
RestoreForget ==
    /\ stack = <<>>
    /\ Live # {}
    /\ heap' = [i \in Inst |-> Free]
    /\ cache' = EmptyDict
    /\ syncQueue' = EmptyDict
    /\ constructed' = EmptyDict
    /\ last' = NoOp
    /\ UNCHANGED <<backend, stack, threadVars>>

\* the backend holds any of the objects, each knowing at most one object
InitRestore ==
    /\ heap = [i \in Inst |-> Free]
    /\ cache = EmptyDict
    /\ syncQueue = EmptyDict
    /\ \E stored \in SUBSET Oids :
       \E knows \in [stored -> {<<>>} \cup {<<oid>> : oid \in Oids}] :
           backend = [key \in {StorageKey(oid) : oid \in stored} |->
                          exportKnows(key[2], 1, knows[key[2]])]
    /\ forward = EmptyDict
    /\ backward = EmptyDict
    /\ meta = FALSE
    /\ last = NoOp
    /\ saved = EmptyDict
    /\ written = EmptyDict
    /\ latest = EmptyDict
    /\ pc = EmptyDict
    /\ lock = NoThread
    /\ stack = <<>>
    /\ constructed = EmptyDict
    /\ STORAGE = BoundSTORAGE
    /\ declaredClasses = BoundClasses
    /\ relations = EmptyDict
    /\ object = NoObject
    /\ now = 0
    /\ NoBackends

NextRestore ==
    \/ \E key \in Keys : RestoreGet(key)
    \/ RestoreAppendHit
    \/ RestoreAppendMiss
    \/ RestoreRecursionError
    \/ RestoreRegister
    \/ RestoreForget

SpecRestore == InitRestore /\ [][NextRestore]_vars

\* every stored object knows another stored object: with two objects, A
\* knows B and B knows A
TwoCycle ==
    /\ DOMAIN backend = Keys
    /\ \A key \in Keys : Len(backend[key].knows) = 1 /\ backend[key].knows[1] # key[2]

\* C5: when the stored objects form a cycle A -> B -> A, a restoration calls
\* the constructor at most once per object and does not end in a
\* RecursionError.
C5_RestoreCycleOnce ==
    TwoCycle => /\ \A key \in DOMAIN constructed : constructed[key] <= 1
                /\ last.op # "RecursionError"

(***************************************************************************)
(* Several ObjectStorage instances binding the classes with use and        *)
(* unbinding them with release (specification SpecUse).  `last` records    *)
(* the storage and the class of a use, the storage the class was bound to  *)
(* before, and whether use raised.                                         *)
(***************************************************************************)
UseOp(op, st, c, bound, raised) ==
    [op |-> op, storage |-> st, cls |-> c, bound |-> bound, raised |-> raised]

\* ObjectStorage.use has no statement that raises for a class bound elsewhere
useRaises(st, c) == FALSE

bindingVars == <<heap, cache, syncQueue, backend, forward, backward, meta, saved,
                 written, latest, pc, lock, stack, constructed, fieldVars>>

\* storage.use(c)
Use(st, c) ==
    /\ STORAGE' = [STORAGE EXCEPT ![c] = st]
    /\ declaredClasses' = [declaredClasses EXCEPT ![st] = @ \cup {c}]
    /\ last' = UseOp("use", st, c, STORAGE[c], useRaises(st, c))
    /\ UNCHANGED bindingVars

\* storage.release(): every class the storage declared is unbound
ObjectStorageRelease(st) ==
    /\ STORAGE' = [c \in Classes |->
                      IF c \in declaredClasses[st] THEN NoStorage ELSE STORAGE[c]]
    /\ declaredClasses' = [declaredClasses EXCEPT ![st] = {}]
    /\ last' = UseOp("release", st, "-", NoStorage, FALSE)
    /\ UNCHANGED bindingVars

InitUse ==
    /\ heap = [i \in Inst |-> Free]
    /\ cache = EmptyDict
    /\ syncQueue = EmptyDict
    /\ backend = EmptyDict
    /\ forward = EmptyDict
    /\ backward = EmptyDict
    /\ meta = FALSE
    /\ last = UseOp("-", NoStorage, "-", NoStorage, FALSE)
    /\ saved = EmptyDict
    /\ written = EmptyDict
    /\ latest = EmptyDict
    /\ pc = EmptyDict
    /\ lock = NoThread
    /\ stack = <<>>
    /\ constructed = EmptyDict
    /\ STORAGE = [c \in Classes |-> NoStorage]
    /\ declaredClasses = [st \in Storages |-> {}]
    /\ relations = EmptyDict
    /\ object = NoObject
    /\ now = 0
    /\ NoBackends

NextUse ==
    \/ \E st \in Storages, c \in Classes : Use(st, c)
    \/ \E st \in Storages : ObjectStorageRelease(st)

SpecUse == InitUse /\ [][NextUse]_vars

\* C13: a use of a class that is bound to another storage raises and leaves
\* the class bound to that storage.
C13_UseBoundElsewhereRaises ==
    (last.op = "use" /\ last.bound \notin {NoStorage, last.storage}) =>
        last.raised /\ STORAGE[last.cls] = last.bound

\* C39: release() on a storage leaves bound every class that is bound to
\* another storage.
C39_ReleaseKeepsOtherBindings ==
    [][last'.op = "release" =>
           \A c \in Classes :
               STORAGE[c] \notin {NoStorage, last'.storage} =>
                   STORAGE'[c] = STORAGE[c]]_vars

(***************************************************************************)
(* The objects of a class with one relation `knows` to its own class       *)
(* (specification SpecRelation).  relations[oid] is the Relation of the    *)
(* object: whether its definition is a list (many), whether its values are *)
(* still None, and its values, each the oid of the object it refers to.    *)
(* `last` records an operation, the values before it and what it raised or *)
(* returned.                                                               *)
(***************************************************************************)
NewRelation(many) == [many |-> many, none |-> TRUE, values |-> <<>>]
None == "None"

\* Relation.isMany
isMany(rel) == rel.many

\* mutant of appendRaises: a singular relation never rejects a value
appendRaises_never(rel, value) == FALSE

\* Relation.append: RuntimeError on a singular relation that has a value
appendRaises(rel, value) == value # None /\ ~isMany(rel) /\ Len(rel.values) > 0

\* Relation.append: a value that is not true is ignored; the values are
\* created if they are None; the restored value is appended unless the
\* relation rejects it
append(rel, value) ==
    IF value = None THEN rel
    ELSE IF appendRaises(rel, value) THEN [rel EXCEPT !.none = FALSE]
    ELSE [rel EXCEPT !.none = FALSE, !.values = Append(@, value)]

\* Relation.clear
clear(rel) == [rel EXCEPT !.none = FALSE, !.values = <<>>]

\* Relation.set: clear, then add each value until one is rejected
RECURSIVE addAll(_, _)
addAll(rel, values) ==
    IF values = <<>> \/ appendRaises(rel, Head(values)) THEN rel
    ELSE addAll(append(rel, Head(values)), Tail(values))
RECURSIVE addAllRaises(_, _)
addAllRaises(rel, values) ==
    /\ values # <<>>
    /\ \/ appendRaises(rel, Head(values))
       \/ addAllRaises(append(rel, Head(values)), Tail(values))

\* what export returns when the interpreter's recursion limit is reached
RecursionError == [error |-> "RecursionError"]

\* StoredObject.export with the default options, fuel calls deep: oid, type
\* and the relation rendered by Relation.export, which resolves each element
\* and exports it with depth 1
RECURSIVE exportObject(_, _, _)
exportObject(rels, oid, fuel) ==
    IF fuel = 0 THEN RecursionError
    ELSE LET elements == [n \in DOMAIN rels[oid].values |->
                             exportObject(rels, rels[oid].values[n], fuel - 1)]
         IN  IF \E n \in DOMAIN elements : elements[n] = RecursionError
             THEN RecursionError
             ELSE [oid |-> oid, type |-> ClassName, knows |-> elements]

RelationOp(op, oid, value, before, raised, result) ==
    [op |-> op, oid |-> oid, value |-> value, before |-> before, raised |-> raised,
     result |-> result]
NoResult == [error |-> "-"]

relationVars == <<heap, cache, syncQueue, backend, forward, backward, meta, saved,
                  written, latest, pc, lock, stack, constructed, STORAGE,
                  declaredClasses, object, now, backendVars,
                 classVars>>

\* o.knows.append(value)
RelationAppend(oid, value) ==
    /\ Len(relations[oid].values) < MaxValues
    /\ relations' = [relations EXCEPT ![oid] = append(@, value)]
    /\ last' = RelationOp("append", oid, value, relations[oid].values,
                          appendRaises(relations[oid], value), NoResult)
    /\ UNCHANGED relationVars

\* o.knows.clear()
RelationClear(oid) ==
    /\ relations' = [relations EXCEPT ![oid] = clear(@)]
    /\ last' = RelationOp("clear", oid, None, relations[oid].values, FALSE, NoResult)
    /\ UNCHANGED relationVars

\* o.knows.set(values), o.setRelation("knows", values)
RelationSet(oid, values) ==
    /\ relations' = [relations EXCEPT ![oid] = addAll(clear(@), values)]
    /\ last' = RelationOp("set", oid, None, relations[oid].values,
                          addAllRaises(clear(relations[oid]), values), NoResult)
    /\ UNCHANGED relationVars

\* o.export()
Export(oid) ==
    /\ last' = RelationOp("export", oid, None, relations[oid].values, FALSE,
                          exportObject(relations, oid, MaxDepth))
    /\ UNCHANGED <<relations, relationVars>>

\* the class defines its relation as a class or as a list of one class
InitRelation ==
    /\ heap = [i \in Inst |-> Free]
    /\ cache = EmptyDict
    /\ syncQueue = EmptyDict
    /\ backend = EmptyDict
    /\ forward = EmptyDict
    /\ backward = EmptyDict
    /\ meta = FALSE
    /\ last = RelationOp("-", "-", None, <<>>, FALSE, NoResult)
    /\ saved = EmptyDict
    /\ written = EmptyDict
    /\ latest = EmptyDict
    /\ pc = EmptyDict
    /\ lock = NoThread
    /\ stack = <<>>
    /\ constructed = EmptyDict
    /\ STORAGE = BoundSTORAGE
    /\ declaredClasses = BoundClasses
    /\ \E many \in BOOLEAN : relations = [oid \in Oids |-> NewRelation(many)]
    /\ object = NoObject
    /\ now = 0
    /\ NoBackends

NextRelation ==
    \/ \E oid \in Oids, value \in Oids \cup {None} : RelationAppend(oid, value)
    \/ \E oid \in Oids : RelationClear(oid)
    \/ \E oid \in Oids, values \in UNION {[1 .. n -> Oids] : n \in 0 .. MaxValues} :
           RelationSet(oid, values)
    \/ \E oid \in Oids : Export(oid)

SpecRelation == InitRelation /\ [][NextRelation]_vars

\* C14: an append of an object to a singular relation is accepted when the
\* relation is empty, and is rejected when it has a value, which it keeps as
\* its only value.
C14_SingularRejectsSecond ==
    (last.op = "append" /\ last.value # None /\ ~isMany(relations[last.oid])) =>
        IF last.before = <<>>
        THEN ~last.raised /\ relations[last.oid].values = <<last.value>>
        ELSE /\ last.raised
             /\ relations[last.oid].values = last.before
             /\ Len(relations[last.oid].values) = 1

\* C14 witness: a singular relation that held one object has rejected the
\* append of another object.
C14_Witness ==
    /\ last.op = "append" /\ last.raised
    /\ ~isMany(relations[last.oid])
    /\ last.before # <<>> /\ last.value # last.before[1]

\* C18: export with the default options returns, and renders each element of
\* the relation as a reference holding only oid and type.
C18_ExportShallow ==
    last.op = "export" =>
        /\ last.result # RecursionError
        /\ \A n \in DOMAIN last.result.knows :
               DOMAIN last.result.knows[n] = {"oid", "type"}

(***************************************************************************)
(* The timestamps of one StoredObject with the property `value` and the    *)
(* relation `knows` (specification SpecUpdates).  `object` holds _isNew,   *)
(* the value of the property and the _updates map; `now` is what           *)
(* getTimestamp returns.  `last` records a construction: whether it        *)
(* restored, and the updates map it was given.                             *)
(***************************************************************************)
NoValue == 0
NoTimestamp == 0 - 1
Times == 0 .. MaxTime
Max(a, b) == IF a >= b THEN a ELSE b
Lookup(d, k, default) == IF k \in DOMAIN d THEN d[k] ELSE default

\* setProperty, setRelation: the entry of the field and the entry oid both
\* become the later of the timestamp (the clock when none is given) and the
\* entry of the field
bump(o, name, timestamp, clock) ==
    LET t == Max(IF timestamp = NoTimestamp THEN clock ELSE timestamp,
                 Lookup(o.updates, name, 0 - 1))
    IN  [o EXCEPT !.updates = Put(Put(@, name, t), "oid", t)]

\* StoredObject.setProperty
StoredObjectSetProperty(o, value, timestamp, clock) ==
    LET old_value == IF ~o.isNew THEN o.value ELSE NoValue
        o1        == [o EXCEPT !.value = value]
    IN  IF ~o.isNew /\ old_value # value
        THEN bump(o1, "value", timestamp, clock) ELSE o1

\* StoredObject.setRelation
StoredObjectSetRelation(o, timestamp, clock) ==
    IF ~o.isNew THEN bump(o, "knows", timestamp, clock) ELSE o

\* StoredObject.set on the reserved key "updates": each entry becomes the
\* later of the given one and the present one
mergeUpdates(o, given) ==
    [o EXCEPT !.updates = [k \in (DOMAIN @) \cup (DOMAIN given) |->
                               Max(Lookup(given, k, 0 - 1), Lookup(@, k, 0 - 1))]]

\* StoredObject.set({value, knows, updates}, timestamp): value is NoValue and
\* knows is FALSE for a name the dictionary lacks
StoredObjectSet(o, value, knows, given, timestamp, clock) ==
    LET o1 == IF value # NoValue
              THEN StoredObjectSetProperty(o, value, timestamp, clock) ELSE o
        o2 == IF knows THEN StoredObjectSetRelation(o1, timestamp, clock) ELSE o1
    IN  mergeUpdates(o2, given)

\* StoredObject.__init__(properties, restored): _isNew is restored, the
\* properties are set, the given updates replace the entries they name, and
\* the entry oid defaults to 0
StoredObjectInit(restored, value, knows, given, clock) ==
    LET o0 == [constructed |-> TRUE, isNew |-> restored, value |-> NoValue,
               updates |-> EmptyDict]
        o1 == StoredObjectSet(o0, value, knows, given, NoTimestamp, clock)
        o2 == [o1 EXCEPT !.updates = [k \in (DOMAIN @) \cup (DOMAIN given) |->
                                          IF k \in DOMAIN given THEN given[k] ELSE @[k]]]
    IN  [o2 EXCEPT !.updates = IF "oid" \in DOMAIN @ THEN @ ELSE Put(@, "oid", 0)]

\* the updates maps given to a constructor: none, or one with an entry for
\* oid and for each field, none later than the entry oid
GivenUpdates ==
    {EmptyDict} \cup {u \in [{"oid", "value", "knows"} -> Times] :
                          u["value"] <= u["oid"] /\ u["knows"] <= u["oid"]}

ConstructOp(restored, given) == [op |-> "construct", restored |-> restored, given |-> given]
NoUpdatesOp == [op |-> "-", restored |-> FALSE, given |-> EmptyDict]

updatesVars == <<heap, cache, syncQueue, backend, forward, backward, meta, saved,
                 written, latest, pc, lock, stack, constructed, STORAGE,
                 declaredClasses, relations, backendVars,
                 classVars>>

\* Value(properties..., restored=restored)
UpdatesConstruct(restored, value, knows, given) ==
    /\ ~object.constructed
    /\ object' = StoredObjectInit(restored, value, knows, given, now)
    /\ last' = ConstructOp(restored, given)
    /\ UNCHANGED <<now, updatesVars>>

\* o.setProperty("value", value, timestamp)
UpdatesSetProperty(value, timestamp) ==
    /\ object.constructed
    /\ object' = StoredObjectSetProperty(object, value, timestamp, now)
    /\ last' = NoUpdatesOp
    /\ UNCHANGED <<now, updatesVars>>

\* o.setRelation("knows", values, timestamp)
UpdatesSetRelation(timestamp) ==
    /\ object.constructed
    /\ object' = StoredObjectSetRelation(object, timestamp, now)
    /\ last' = NoUpdatesOp
    /\ UNCHANGED <<now, updatesVars>>

\* o.set({value, knows}, timestamp=timestamp), o.update({value, knows})
UpdatesSet(value, knows, timestamp) ==
    /\ object.constructed
    /\ object' = StoredObjectSet(object, value, knows, EmptyDict, timestamp, now)
    /\ last' = NoUpdatesOp
    /\ UNCHANGED <<now, updatesVars>>

\* o.setStorage(storage), which _get calls on a restored object
UpdatesSetStorage ==
    /\ object.constructed /\ object.isNew
    /\ object' = [object EXCEPT !.isNew = FALSE]
    /\ last' = NoUpdatesOp
    /\ UNCHANGED <<now, updatesVars>>

\* time passes
Tick ==
    /\ now < MaxTime
    /\ now' = now + 1
    /\ UNCHANGED <<object, last, updatesVars>>

InitUpdates ==
    /\ heap = [i \in Inst |-> Free]
    /\ cache = EmptyDict
    /\ syncQueue = EmptyDict
    /\ backend = EmptyDict
    /\ forward = EmptyDict
    /\ backward = EmptyDict
    /\ meta = FALSE
    /\ last = NoUpdatesOp
    /\ saved = EmptyDict
    /\ written = EmptyDict
    /\ latest = EmptyDict
    /\ pc = EmptyDict
    /\ lock = NoThread
    /\ stack = <<>>
    /\ constructed = EmptyDict
    /\ STORAGE = BoundSTORAGE
    /\ declaredClasses = BoundClasses
    /\ relations = EmptyDict
    /\ object = NoObject
    /\ now = 1
    /\ NoBackends

NextUpdates ==
    \/ \E restored \in BOOLEAN, value \in Values \cup {NoValue}, knows \in BOOLEAN,
          given \in GivenUpdates : UpdatesConstruct(restored, value, knows, given)
    \/ \E value \in Values, timestamp \in Times \cup {NoTimestamp} :
           UpdatesSetProperty(value, timestamp)
    \/ \E timestamp \in Times \cup {NoTimestamp} : UpdatesSetRelation(timestamp)
    \/ \E value \in Values \cup {NoValue}, knows \in BOOLEAN,
          timestamp \in Times \cup {NoTimestamp} : UpdatesSet(value, knows, timestamp)
    \/ UpdatesSetStorage
    \/ Tick

SpecUpdates == InitUpdates /\ [][NextUpdates]_vars

\* C15: in every state of a constructed object no entry of its updates map
\* is later than the entry oid.
C15_FieldNotAfterOid ==
    object.constructed =>
        \A f \in DOMAIN object.updates : object.updates[f] <= object.updates["oid"]

\* C16: no step on a constructed object decreases an entry of its updates
\* map, the entry oid included.
C16_UpdatesNeverDecrease ==
    [][object.constructed =>
           \A k \in DOMAIN object.updates :
               k \in DOMAIN object'.updates /\ object'.updates[k] >= object.updates[k]]_vars

\* C17: right after the construction of a new (not restored) object, its
\* updates map is the map it was given, or holds only oid = 0 when it was
\* given none.
C17_NewObjectKeepsUpdates ==
    (last.op = "construct" /\ ~last.restored) =>
        object.updates = IF last.given = EmptyDict THEN Put(EmptyDict, "oid", 0)
                         ELSE last.given

(***************************************************************************)
(* Threads that write to one ObjectStorage (specifications SpecSave and    *)
(* SpecWriters).  Two objects are registered; a thread saves one of them   *)
(* (StoredObject.save, ObjectStorage.add), removes one or calls sync(),    *)
(* while the application assigns their property.  pc[t] is the position    *)
(* of thread t in its call; `last` records the step just taken: the thread,*)
(* whether it owned the lock, and the thread that acquired the lock last.  *)
(***************************************************************************)
Ready == [at |-> "idle", op |-> "-", inst |-> NoInst, exported |-> export(Free),
          bucket |-> 0, overlap |-> FALSE]
StepOp(op, t, acquired) ==
    [op |-> op, thread |-> t, held |-> lock = t, acquired |-> acquired]
\* a step that neither changes the cache nor passes over the sync queue
OtherStep(acquired) ==
    [op |-> "-", thread |-> NoThread, held |-> FALSE, acquired |-> acquired]
InFlight(t) == pc[t].op = "save" /\ pc[t].at \in {"enter", "store", "index", "add"}

saveVars == <<syncQueue, saved, written, latest, stack, constructed, STORAGE,
              declaredClasses, fieldVars>>

\* o.save(): has() chooses between create and update, which differ in add
\* by backend.add / backend.update and index.add / index.update, and these
\* are alike in MemoryBackend and in IndexStorage; then add begins.
\* `overlap` notes that another thread's save is in flight
SaveCall(t, i) ==
    /\ pc[t].at \in {"idle", "done"}
    /\ pc' = [pc EXCEPT ![t] =
                 [Ready EXCEPT !.at = "enter", !.op = "save", !.inst = i,
                               !.overlap = \E u \in Threads \ {t} : InFlight(u)]]
    /\ last' = OtherStep(last.acquired)
    /\ UNCHANGED <<heap, cache, backend, forward, backward, meta, lock, saveVars>>

\* add: self.lock.acquire(), then storedObject.export()
SaveEnter(t) ==
    /\ pc[t].at = "enter"
    /\ CanAcquire(lock, t)
    /\ lock' = t
    /\ pc' = [pc EXCEPT ![t].at = "store", ![t].exported = export(heap[pc[t].inst])]
    /\ last' = OtherStep(t)
    /\ UNCHANGED <<heap, cache, backend, forward, backward, meta, saveVars>>

\* add: backend.add or backend.update of the export, self._cache[key] =
\* storedObject, self.lock.release()
SaveStore(t) ==
    /\ pc[t].at = "store"
    /\ LET key == getStorageKey(heap[pc[t].inst])
       IN  /\ backend' = MemoryUpdate(backend, key, pc[t].exported)
           /\ cache' = Put(cache, key, pc[t].inst)
    /\ lock' = NoThread
    /\ pc' = [pc EXCEPT ![t].at = "index"]
    /\ last' = StepOp("store", t, last.acquired)
    /\ UNCHANGED <<heap, forward, backward, meta, saveVars>>

\* add, after the lock is released: index.add / index.update.  IndexStorage.add
\* strips the previous entries, writes the backward entry and, when the
\* forward backend has the key, appends the signature to its bucket; when it
\* has not, forwardBackend.add is still to come.  Then index.save()
SaveIndex(t) ==
    /\ pc[t].at = "index"
    /\ LET o        == heap[pc[t].inst]
           sig      == getStorageKey(o)
           keys     == IndexKeys(o)
           stripped == IF MemoryHas(backward, sig)
                       THEN AddStrip(forward, backward[sig], sig) ELSE forward
       IN  /\ backward' = IF MemoryHas(backward, sig)
                          THEN MemoryUpdate(backward, sig, keys)
                          ELSE MemoryAdd(backward, sig, keys)
           /\ IF MemoryHas(stripped, keys[1])
              THEN /\ forward' = AddAppend(stripped, keys, sig)
                   /\ meta' = TRUE
                   /\ pc' = [pc EXCEPT ![t].at = "done", ![t].bucket = keys[1]]
              ELSE /\ forward' = stripped
                   /\ meta' = meta
                   /\ pc' = [pc EXCEPT ![t].at = "add", ![t].bucket = keys[1]]
    /\ last' = OtherStep(last.acquired)
    /\ UNCHANGED <<heap, cache, backend, lock, saveVars>>

\* IndexStorage.add: self.forwardBackend.add(key, [sig]), then index.save()
SaveIndexAdd(t) ==
    /\ pc[t].at = "add"
    /\ forward' = MemoryAdd(forward, pc[t].bucket, <<getStorageKey(heap[pc[t].inst])>>)
    /\ meta' = TRUE
    /\ pc' = [pc EXCEPT ![t].at = "done"]
    /\ last' = OtherStep(last.acquired)
    /\ UNCHANGED <<heap, cache, backend, backward, lock, saveVars>>

\* o.value = v, by the application
SetValue(i, v) ==
    /\ heap[i].value # v
    /\ heap' = [heap EXCEPT ![i].value = v]
    /\ last' = OtherStep(last.acquired)
    /\ UNCHANGED <<cache, backend, forward, backward, meta, pc, lock, saveVars>>

\* storage.remove(o): del self._cache[key]
ThreadUncache(t, i) ==
    /\ pc[t].at \in {"idle", "done"}
    /\ getStorageKey(heap[i]) \in DOMAIN cache
    /\ cache' = Del(cache, getStorageKey(heap[i]))
    /\ pc' = [pc EXCEPT ![t] = [Ready EXCEPT !.at = "remove", !.op = "remove", !.inst = i]]
    /\ last' = StepOp("uncache", t, last.acquired)
    /\ UNCHANGED <<heap, backend, forward, backward, meta, lock, saveVars>>

\* storage.remove(o), the rest: index.remove, index.save, backend.remove
ThreadRemove(t) ==
    /\ pc[t].at = "remove"
    /\ Apply(remove(State, getStorageKey(heap[pc[t].inst]), TRUE))
    /\ pc' = [pc EXCEPT ![t].at = "done"]
    /\ last' = StepOp("remove", t, last.acquired)
    /\ UNCHANGED <<lock, saved, written, latest, stack, constructed, STORAGE,
                   declaredClasses, fieldVars>>

\* storage.sync(): the pass over the sync queue
ThreadSync(t) ==
    /\ pc[t].at \in {"idle", "done"}
    /\ Apply(sync(State))
    /\ pc' = [pc EXCEPT ![t] = [Ready EXCEPT !.at = "done", !.op = "sync"]]
    /\ last' = StepOp("sync", t, last.acquired)
    /\ UNCHANGED <<lock, saved, written, latest, stack, constructed, STORAGE,
                   declaredClasses, fieldVars>>

\* one object per oid has been constructed: both are in the cache and in the
\* sync queue, the backend and the index are empty
InitSave ==
    /\ \E value \in [Oids -> Values] :
           heap = [i \in Inst |-> IF i = 1 THEN Object("o1", value["o1"])
                                  ELSE IF i = 2 THEN Object("o2", value["o2"])
                                  ELSE Free]
    /\ cache = (StorageKey("o1") :> 1) @@ (StorageKey("o2") :> 2)
    /\ syncQueue = (StorageKey("o1") :> 1) @@ (StorageKey("o2") :> 2)
    /\ backend = EmptyDict
    /\ forward = EmptyDict
    /\ backward = EmptyDict
    /\ meta = FALSE
    /\ last = OtherStep(NoThread)
    /\ saved = EmptyDict
    /\ written = EmptyDict
    /\ latest = EmptyDict
    /\ pc = [t \in Threads |-> Ready]
    /\ lock = NoThread
    /\ stack = <<>>
    /\ constructed = EmptyDict
    /\ STORAGE = BoundSTORAGE
    /\ declaredClasses = BoundClasses
    /\ relations = EmptyDict
    /\ object = NoObject
    /\ now = 0
    /\ NoBackends

NextSave ==
    \/ \E t \in Threads, i \in 1 .. 2 : SaveCall(t, i)
    \/ \E t \in Threads : SaveEnter(t)
    \/ \E t \in Threads : SaveStore(t)
    \/ \E t \in Threads : SaveIndex(t)
    \/ \E t \in Threads : SaveIndexAdd(t)
    \/ \E i \in 1 .. 2, v \in Values : SetValue(i, v)

SpecSave == InitSave /\ [][NextSave]_vars

NextWriters ==
    \/ \E t \in Threads, i \in 1 .. 2 : SaveCall(t, i)
    \/ \E t \in Threads : SaveEnter(t)
    \/ \E t \in Threads : SaveStore(t)
    \/ \E t \in Threads : SaveIndex(t)
    \/ \E t \in Threads : SaveIndexAdd(t)
    \/ \E t \in Threads, i \in 1 .. 2 : ThreadUncache(t, i)
    \/ \E t \in Threads : ThreadRemove(t)
    \/ \E t \in Threads : ThreadSync(t)

SpecWriters == InitSave /\ [][NextWriters]_vars

\* C22: when two threads have saved two different objects in overlapping
\* calls and indexed them under the same key, the bucket of that key lists
\* both signatures.
C22_SameKeyBothListed ==
    \A t, u \in Threads :
        ( /\ t # u /\ pc[t].overlap
          /\ pc[t].op = "save" /\ pc[u].op = "save"
          /\ pc[t].at = "done" /\ pc[u].at = "done"
          /\ pc[t].inst # pc[u].inst /\ pc[t].bucket = pc[u].bucket )
        => /\ getStorageKey(heap[pc[t].inst]) \in Elems(IndexGet(forward, pc[t].bucket))
           /\ getStorageKey(heap[pc[u].inst]) \in Elems(IndexGet(forward, pc[t].bucket))

\* C23: a step that changes the cache (the store of add, the deletion of
\* remove) or that passes over the sync queue is taken by a thread that
\* owns the lock.
C23_CacheUnderLock ==
    last.op \in {"store", "uncache", "remove", "sync"} => last.held

\* C24: a thread that is between its export and its backend write owns the
\* lock and is alone there; the thread that writes is the one that acquired
\* the lock last, and the backend then holds the export that thread took.
C24_SaveNotInterleaved ==
    /\ \A t \in Threads :
           pc[t].at = "store" =>
               /\ lock = t
               /\ \A u \in Threads \ {t} : pc[u].at # "store"
    /\ last.op = "store" =>
           /\ last.held
           /\ last.thread = last.acquired
           /\ backend[getStorageKey(heap[pc[last.thread].inst])]
                  = pc[last.thread].exported

\* C24 witness: a thread has written the export of an object that another
\* thread had begun to save before, with another export, when the first
\* thread called save.
C24_Witness ==
    /\ last.op = "store"
    /\ pc[last.thread].overlap
    /\ \E u \in Threads \ {last.thread} :
           /\ pc[u].op = "save" /\ pc[u].at \in {"index", "add", "done"}
           /\ pc[u].inst = pc[last.thread].inst
           /\ pc[u].exported # pc[last.thread].exported
           /\ backend[getStorageKey(heap[pc[u].inst])] = pc[last.thread].exported

(***************************************************************************)
(* The reference backends, MemoryBackend, DBMBackend and DirectoryBackend  *)
(* (specifications SpecBackends and SpecTryAdd).  `store` is what the      *)
(* backend holds: MemoryBackend keeps the data as given under the          *)
(* serialized key, DBMBackend keeps the JSON text of the data under the    *)
(* serialized key, DirectoryBackend keeps the JSON text in the file whose  *)
(* path the key translates to.  `plain` is the map of the keys written and *)
(* not removed since, with the data last given.  `last` records a call:    *)
(* whether the backend had the key, whether the call raised and with what, *)
(* how many times the DBM store was written to, whether `store` changed.   *)
(***************************************************************************)
BackendKinds == {"memory", "dbm", "directory"}
BackendKeys == {"a", "a.b", "a/b"}
\* a string, a tuple and a list
Data == {"'OK'", "(1, 2)", "[1, 2]"}

\* json.dumps renders a tuple as it renders a list; json.loads gives a list
asJSON(data) == IF data = "'OK'" THEN "\"OK\"" ELSE "[1, 2]"
unJSON(text) == IF text = "\"OK\"" THEN "'OK'" ELSE "[1, 2]"

\* DirectoryBackend._defaultKeyToPath: root + key.replace(".", "/") + ".json"
keyToPath(key) == IF key = "a" THEN "a.json" ELSE "a/b.json"

\* where a backend keeps a key: DirectoryBackend at its path, the others
\* under its JSON text, which differs for different keys
Slot(k, key) == IF k = "directory" THEN keyToPath(key) ELSE key

\* the writes the underlying DBM store refuses before it accepts one
MaxFailures == 7
Retries == 5

NoError == "-"
Returned(st, attempts) ==
    [store |-> st, raised |-> FALSE, error |-> NoError, attempts |-> attempts]
Raised(st, error, attempts) ==
    [store |-> st, raised |-> TRUE, error |-> error, attempts |-> attempts]

\* DBMBackend._tryAdd, the loop: the store is written to; on dbm.error the
\* loop raises when retries is 0, else decrements it and writes again
RECURSIVE tryAddLoop(_, _, _)
tryAddLoop(retries, failures, attempts) ==
    IF failures = 0 THEN [attempts |-> attempts + 1, raised |-> FALSE]
    ELSE IF retries = 0 THEN [attempts |-> attempts + 1, raised |-> TRUE]
    ELSE tryAddLoop(retries - 1, failures - 1, attempts + 1)

\* DBMBackend._tryAdd: a database that holds no key is falsy, and _open does
\* nothing when self.values is not None
DBMTryAdd(st, key, text, failures) ==
    IF st = EmptyDict THEN Raised(st, "RuntimeError", 0)
    ELSE LET loop == tryAddLoop(Retries, failures, 0)
         IN  IF loop.raised THEN Raised(st, "dbm.error", loop.attempts)
             ELSE Returned(Put(st, key, text), loop.attempts)

\* add and update of the three backends
BackendWrite(k, st, key, data, failures) ==
    IF k = "memory" THEN Returned(MemoryUpdate(st, Slot(k, key), data), 0)
    ELSE IF k = "dbm" THEN DBMTryAdd(st, Slot(k, key), asJSON(data), failures)
    ELSE Returned(Put(st, Slot(k, key), asJSON(data)), 0)

\* remove: del self.values[key] raises KeyError on a missing key in
\* MemoryBackend and DBMBackend; DirectoryBackend unlinks the file if it exists
BackendRemove(k, st, key) ==
    IF k = "directory" THEN Returned(Del(st, Slot(k, key)), 0)
    ELSE IF MemoryRemoveRaises(st, Slot(k, key)) THEN Raised(st, "KeyError", 0)
    ELSE Returned(MemoryRemove(st, Slot(k, key)), 0)

\* clear: MemoryBackend takes a new dictionary, DBMBackend removes every key,
\* DirectoryBackend inherits StorageBackend.clear
BackendClear(k, st) ==
    IF k = "directory" THEN Raised(st, "NotImplementedError", 0)
    ELSE Returned(EmptyDict, 0)

\* has, get and count
BackendHas(k, st, key) == MemoryHas(st, Slot(k, key))
BackendGet(k, st, key) ==
    IF ~MemoryHas(st, Slot(k, key)) THEN None
    ELSE IF k = "memory" THEN st[Slot(k, key)]
    ELSE unJSON(st[Slot(k, key)])
BackendCount(k, st) == Cardinality(DOMAIN st)

BackendOp(op, key, failures, result) ==
    [op |-> op, key |-> key, had |-> BackendHas(kind, store, key),
     failures |-> failures, raised |-> result.raised, error |-> result.error,
     attempts |-> result.attempts, unchanged |-> result.store = store]
NoBackendOp ==
    [op |-> "-", key |-> "-", had |-> FALSE, failures |-> 0, raised |-> FALSE,
     error |-> NoError, attempts |-> 0, unchanged |-> TRUE]

storageVars == <<heap, cache, syncQueue, backend, forward, backward, meta, saved,
                 written, latest, pc, lock, stack, constructed, STORAGE,
                 declaredClasses, relations, object, now, backends, readBackend,
                 fileBackend, dirs, classVars>>

\* backend.add(key, data); the plain map keeps what a write gives unless the
\* DBM store refused it to the end
BackendAddCall(key, data, failures) ==
    LET result == BackendWrite(kind, store, key, data, failures)
    IN  /\ store' = result.store
        /\ plain' = IF result.error = "dbm.error" THEN plain ELSE Put(plain, key, data)
        /\ last' = BackendOp("add", key, failures, result)
        /\ UNCHANGED <<kind, storageVars>>

\* backend.update(key, data)
BackendUpdateCall(key, data, failures) ==
    LET result == BackendWrite(kind, store, key, data, failures)
    IN  /\ store' = result.store
        /\ plain' = IF result.error = "dbm.error" THEN plain ELSE Put(plain, key, data)
        /\ last' = BackendOp("update", key, failures, result)
        /\ UNCHANGED <<kind, storageVars>>

\* backend.remove(key)
BackendRemoveCall(key) ==
    LET result == BackendRemove(kind, store, key)
    IN  /\ store' = result.store
        /\ plain' = Del(plain, key)
        /\ last' = BackendOp("remove", key, 0, result)
        /\ UNCHANGED <<kind, storageVars>>

\* backend.clear()
BackendClearCall ==
    LET result == BackendClear(kind, store)
    IN  /\ store' = result.store
        /\ plain' = EmptyDict
        /\ last' = BackendOp("clear", "-", 0, result)
        /\ UNCHANGED <<kind, storageVars>>

\* a backend of any of the three classes, holding what `initial` gives
InitBackend(kinds, initial) ==
    /\ heap = [i \in Inst |-> Free]
    /\ cache = EmptyDict
    /\ syncQueue = EmptyDict
    /\ backend = EmptyDict
    /\ forward = EmptyDict
    /\ backward = EmptyDict
    /\ meta = FALSE
    /\ last = NoBackendOp
    /\ saved = EmptyDict
    /\ written = EmptyDict
    /\ latest = EmptyDict
    /\ pc = EmptyDict
    /\ lock = 0
    /\ stack = <<>>
    /\ constructed = EmptyDict
    /\ STORAGE = BoundSTORAGE
    /\ declaredClasses = BoundClasses
    /\ relations = EmptyDict
    /\ object = NoObject
    /\ now = 0
    /\ kind \in kinds
    /\ plain \in initial
    /\ store = [slot \in {Slot(kind, key) : key \in DOMAIN plain} |->
                   IF kind = "memory" THEN "'OK'" ELSE asJSON("'OK'")]
    /\ backends = <<>>
    /\ readBackend = 0
    /\ fileBackend = 0
    /\ dirs = {}
    /\ COLLECTION = << >>
    /\ INDEXES = << >>

\* the backend starts empty, and its store accepts every write
InitBackends == InitBackend(BackendKinds, {EmptyDict})

NextBackends ==
    \/ \E key \in BackendKeys, data \in Data : BackendAddCall(key, data, 0)
    \/ \E key \in BackendKeys, data \in Data : BackendUpdateCall(key, data, 0)
    \/ \E key \in BackendKeys : BackendRemoveCall(key)
    \/ BackendClearCall

SpecBackends == InitBackends /\ [][NextBackends]_vars

\* a DBMBackend whose database is new or already holds a key, and whose store
\* refuses any number of writes in a row
InitTryAdd == InitBackend({"dbm"}, {EmptyDict, Put(EmptyDict, "a", "'OK'")})

NextTryAdd ==
    \/ \E key \in BackendKeys, data \in Data, failures \in 0 .. MaxFailures :
           BackendAddCall(key, data, failures)
    \/ \E key \in BackendKeys, data \in Data, failures \in 0 .. MaxFailures :
           BackendUpdateCall(key, data, failures)
    \/ \E key \in BackendKeys : BackendRemoveCall(key)

SpecTryAdd == InitTryAdd /\ [][NextTryAdd]_vars

\* C27: the backend agrees with the plain map: has is true exactly for the
\* keys of the map, get returns the map's data for them and nothing for the
\* others, count is the number of keys, and clear returns with count 0.
C27_BackendAgreesWithMap ==
    /\ \A key \in BackendKeys :
           /\ BackendHas(kind, store, key) <=> key \in DOMAIN plain
           /\ BackendGet(kind, store, key) =
                  IF key \in DOMAIN plain THEN plain[key] ELSE None
    /\ BackendCount(kind, store) = Cardinality(DOMAIN plain)
    /\ last.op = "clear" => ~last.raised /\ BackendCount(kind, store) = 0

\* C28: update of a key the backend does not have raises and the backend
\* still does not have the key.
C28_UpdateAbsentRaises ==
    (last.op = "update" /\ ~last.had) =>
        last.raised /\ ~BackendHas(kind, store, last.key)

\* C29: remove of a key the backend does not have raises and leaves what the
\* backend holds as it was.
C29_RemoveAbsentRaises ==
    (last.op = "remove" /\ ~last.had) => last.raised /\ last.unchanged

\* C30: a write of DBMBackend writes to the store at most 1 + 5 times; when
\* the store refuses all of them it is written to 6 times and the call raises
\* with the dbm error; when the store accepts one, the call returns after
\* that attempt with the key stored.
C30_TryAddBounded ==
    last.op \in {"add", "update"} =>
        /\ last.attempts <= 1 + Retries
        /\ last.failures > Retries =>
               last.raised /\ last.error = "dbm.error" /\ last.attempts = 1 + Retries
        /\ last.failures <= Retries =>
               /\ ~last.raised /\ last.attempts = last.failures + 1
               /\ BackendHas(kind, store, last.key)

(***************************************************************************)
(* MultiBackend (specification SpecMulti).  A member is a MemoryBackend or *)
(* a backend that leaves the methods of StorageBackend as they are, which  *)
(* raise; its class sets the flags HAS_READ and HAS_FILE.  `last` records  *)
(* a call: the position of the member that raised (0: none) and, for a     *)
(* read, the member that served it.                                        *)
(***************************************************************************)
MaxMembers == 3
MultiKeys == {"a", "a.b"}
Member(class, read, file) ==
    [class |-> class, HAS_READ |-> read, HAS_FILE |-> file, values |-> EmptyDict]
Members == {Member(class, read, file) :
                class \in {"MemoryBackend", "StorageBackend"},
                read \in BOOLEAN, file \in BOOLEAN}

\* MultiBackend.__init__, the loop over the members: the attribute is
\* assigned for every member that has the flag
RECURSIVE assigned(_, _, _, _)
assigned(members, flag, n, current) ==
    IF n > Len(members) THEN current
    ELSE assigned(members, flag, n + 1, IF members[n][flag] THEN n ELSE current)

\* add, update, remove and sync of a member
memberRaises(m, op, key) ==
    IF m.class = "MemoryBackend"
    THEN op = "remove" /\ MemoryRemoveRaises(m.values, key)
    ELSE TRUE
memberApply(m, op, key, data) ==
    IF memberRaises(m, op, key) \/ op = "sync" THEN m
    ELSE IF op = "remove" THEN [m EXCEPT !.values = MemoryRemove(@, key)]
    ELSE [m EXCEPT !.values = MemoryUpdate(@, key, data)]

\* mutant of multiApply: when a member raises, the members written before it
\* are put back as they were
multiApply_rollback(members, op, key, data, n) ==
    LET Raising == {i \in DOMAIN members : memberRaises(members[i], op, key)}
    IN  IF Raising = {}
        THEN [backends |-> [j \in DOMAIN members |->
                               memberApply(members[j], op, key, data)],
              failed |-> 0]
        ELSE [backends |-> members,
              failed |-> CHOOSE i \in Raising : \A j \in Raising : i <= j]

\* MultiBackend.add / update / remove / sync: `for backend in self.backends`,
\* which the first exception leaves
RECURSIVE multiApply(_, _, _, _, _)
multiApply(members, op, key, data, n) ==
    IF n > Len(members) THEN [backends |-> members, failed |-> 0]
    ELSE IF memberRaises(members[n], op, key)
         THEN [backends |-> members, failed |-> n]
         ELSE multiApply([members EXCEPT ![n] = memberApply(members[n], op, key, data)],
                         op, key, data, n + 1)

MultiOp(op, key, data, failed, served) ==
    [op |-> op, key |-> key, data |-> data, failed |-> failed, served |-> served,
     raised |-> failed # 0 \/ (op \in {"read", "path"} /\ served = 0)]

multiVars == <<heap, cache, syncQueue, backend, forward, backward, meta, saved,
               written, latest, pc, lock, stack, constructed, STORAGE,
               declaredClasses, relations, object, now, kind, store, plain,
               dirs, classVars>>

\* multi.add(key, data), multi.update(key, data), multi.remove(key) and
\* multi.sync(), which make no use of the arguments they do not take
MultiWrite(op, key, data) ==
    LET result == multiApply(backends, op, key, data, 1)
    IN  /\ backends' = result.backends
        /\ last' = MultiOp(op, key, data, result.failed, 0)
        /\ UNCHANGED <<readBackend, fileBackend, multiVars>>

\* multi.has(key), get(key), list(), count(), keys(): self._readBackend serves,
\* and RuntimeError is raised when it is None
MultiRead(key) ==
    /\ last' = MultiOp("read", key, "-", 0, readBackend)
    /\ UNCHANGED <<backends, readBackend, fileBackend, multiVars>>

\* multi.path(key): self._fileBackend serves
MultiPath(key) ==
    /\ last' = MultiOp("path", key, "-", 0, fileBackend)
    /\ UNCHANGED <<backends, readBackend, fileBackend, multiVars>>

\* MultiBackend(*members), for any members with empty contents
InitMulti ==
    /\ heap = [i \in Inst |-> Free]
    /\ cache = EmptyDict
    /\ syncQueue = EmptyDict
    /\ backend = EmptyDict
    /\ forward = EmptyDict
    /\ backward = EmptyDict
    /\ meta = FALSE
    /\ last = MultiOp("-", "-", "-", 0, 0)
    /\ saved = EmptyDict
    /\ written = EmptyDict
    /\ latest = EmptyDict
    /\ pc = EmptyDict
    /\ lock = 0
    /\ stack = <<>>
    /\ constructed = EmptyDict
    /\ STORAGE = BoundSTORAGE
    /\ declaredClasses = BoundClasses
    /\ relations = EmptyDict
    /\ object = NoObject
    /\ now = 0
    /\ kind = "-"
    /\ store = EmptyDict
    /\ plain = EmptyDict
    /\ \E n \in 1 .. MaxMembers : backends \in [1 .. n -> Members]
    /\ readBackend = assigned(backends, "HAS_READ", 1, 0)
    /\ fileBackend = assigned(backends, "HAS_FILE", 1, 0)
    /\ dirs = {}
    /\ COLLECTION = << >>
    /\ INDEXES = << >>

NextMulti ==
    \/ \E op \in {"add", "update", "remove", "sync"}, key \in MultiKeys,
          data \in {"'OK'", "[1, 2]"} :
           MultiWrite(op, key, data)
    \/ \E key \in MultiKeys : MultiRead(key)
    \/ \E key \in MultiKeys : MultiPath(key)

SpecMulti == InitMulti /\ [][NextMulti]_vars

\* C25: a read is served by the first member, in constructor order, whose
\* class sets HAS_READ, and path by the first whose class sets HAS_FILE.
C25_FirstReaderServes ==
    LET First(flag) ==
            IF \E i \in DOMAIN backends : backends[i][flag]
            THEN CHOOSE i \in DOMAIN backends :
                     /\ backends[i][flag]
                     /\ \A j \in DOMAIN backends : backends[j][flag] => i <= j
            ELSE 0
    IN  /\ last.op = "read" => last.served = First("HAS_READ")
        /\ last.op = "path" => last.served = First("HAS_FILE")

\* C26: a write is applied to the members in list order up to the first one
\* that raises: the call raises exactly when a member does, the members
\* before it are written, that member and the members after it are as they
\* were.
C26_WritesStopAtFailure ==
    [][last'.op \in {"add", "update", "remove", "sync"} =>
           LET Raising == {i \in DOMAIN backends :
                               memberRaises(backends[i], last'.op, last'.key)}
           IN  /\ last'.raised <=> Raising # {}
               /\ last'.raised => last'.failed \in Raising
                                  /\ \A i \in Raising : last'.failed <= i
               /\ \A j \in DOMAIN backends :
                      backends'[j] =
                          IF last'.raised /\ j >= last'.failed THEN backends[j]
                          ELSE memberApply(backends[j], last'.op, last'.key,
                                           last'.data)]_vars

\* C26 witness: an add has raised at the second of three members; the first
\* member holds the key and the third does not.
C26_Witness ==
    /\ last.op = "add" /\ last.raised /\ last.failed = 2
    /\ Len(backends) = 3
    /\ last.key \in DOMAIN backends[1].values
    /\ backends[3].class = "MemoryBackend"
    /\ last.key \notin DOMAIN backends[3].values

(***************************************************************************)
(* DirectoryBackend on a file system (specification SpecDirectory).  A key *)
(* is the sequence of the names that its dots separate, a directory is the *)
(* sequence of names that leads to it, a file is in a directory under a    *)
(* name and an extension.  `store` maps the files that exist to their      *)
(* content, `dirs` has the directories that exist.  `last` records a call: *)
(* whether the file of the key existed before it and whether it raised.    *)
(***************************************************************************)
DirKeys == {<<"k">>, <<"a", "b">>, <<"a", "b", "c">>, <<"a", "c">>}
DATA_EXTENSION == ".json"
RAW_EXTENSION == ".blob"
\* what a write that fails has left in the file
Partial == "\"O"

\* DirectoryBackend.__init__: the directory given, whose text is made to end
\* with "/"
rootDir == <<"root">>
root == [dir |-> rootDir, slash |-> TRUE]

\* DirectoryBackend.path with _defaultKeyToPath:
\* root + key.replace(".", "/") + ext
path(key, ext) ==
    [dir |-> rootDir \o SubSeq(key, 1, Len(key) - 1), name |-> key[Len(key)],
     ext |-> ext]

\* os.path.dirname: the text of the directory of a file, which ends with its
\* last name
dirname(file) == [dir |-> file.dir, slash |-> FALSE]

\* os.listdir(dir), as the files and the directories right under dir
listdir(files, ds, dir) ==
    [files |-> {f \in DOMAIN files : f.dir = dir},
     dirs |-> {d \in ds : Len(d) = Len(dir) + 1 /\ SubSeq(d, 1, Len(dir)) = dir}]

\* os.makedirs(dir): the directory and those that lead to it
makedirs(ds, dir) == ds \cup {SubSeq(dir, 1, n) : n \in 1 .. Len(dir)}

\* mutant of writeFile: a write that fails leaves the file as it is
writeFile_keepsPartial(files, ds, file, data, fails) ==
    LET made == IF file.dir \in ds THEN ds ELSE makedirs(ds, file.dir)
    IN  IF data = None THEN [store |-> files, dirs |-> ds, raised |-> FALSE]
        ELSE IF fails
        THEN [store |-> Put(files, file, Partial), dirs |-> made, raised |-> TRUE]
        ELSE [store |-> Put(files, file, data), dirs |-> made, raised |-> FALSE]

\* DirectoryBackend.writeFile with _getWriteFileHandle: nothing for None;
\* else the directory is made if it does not exist, the file is opened for
\* writing and written; when the write raises, the file is unlinked and the
\* exception raised again
writeFile(files, ds, file, data, fails) ==
    LET made == IF file.dir \in ds THEN ds ELSE makedirs(ds, file.dir)
    IN  IF data = None THEN [store |-> files, dirs |-> ds, raised |-> FALSE]
        ELSE IF fails
        THEN [store |-> Del(Put(files, file, Partial), file), dirs |-> made,
              raised |-> TRUE]
        ELSE [store |-> Put(files, file, data), dirs |-> made, raised |-> FALSE]

\* DirectoryBackend.remove: the file is unlinked if it exists; the directory
\* of the file, when its text differs from the text of the root, exists and
\* lists nothing, is removed
directoryRemove(files, ds, key) ==
    LET file == path(key, DATA_EXTENSION)
        unlinked == Del(files, file)
        parent == dirname(file)
        listed == listdir(unlinked, ds, parent.dir)
    IN  [store |-> unlinked,
         dirs |-> IF /\ parent # root
                     /\ parent.dir \in ds
                     /\ listed.files = {} /\ listed.dirs = {}
                  THEN ds \ {parent.dir}
                  ELSE ds,
         raised |-> FALSE]

DirectoryOp(op, key, ext, result) ==
    [op |-> op, key |-> key, ext |-> ext,
     had |-> path(key, ext) \in DOMAIN store, raised |-> result.raised]

directoryVars == <<heap, cache, syncQueue, backend, forward, backward, meta,
                   saved, written, latest, pc, lock, stack, constructed, STORAGE,
                   declaredClasses, relations, object, now, kind, plain,
                   backends, readBackend, fileBackend, classVars>>

\* backend.add(key, data) and backend.update(key, data), whose write may fail
DirectoryWrite(op, key, data, fails) ==
    LET result == writeFile(store, dirs, path(key, DATA_EXTENSION), asJSON(data),
                            fails)
    IN  /\ store' = result.store
        /\ dirs' = result.dirs
        /\ last' = DirectoryOp(op, key, DATA_EXTENSION, result)
        /\ UNCHANGED directoryVars

\* backend.saveRawData(key, data), for bytes or None
DirectorySaveRawData(key, data, fails) ==
    LET result == writeFile(store, dirs, path(key, RAW_EXTENSION), data, fails)
    IN  /\ store' = result.store
        /\ dirs' = result.dirs
        /\ last' = DirectoryOp("saveRawData", key, RAW_EXTENSION, result)
        /\ UNCHANGED directoryVars

\* backend.remove(key)
DirectoryRemove(key) ==
    LET result == directoryRemove(store, dirs, key)
    IN  /\ store' = result.store
        /\ dirs' = result.dirs
        /\ last' = DirectoryOp("remove", key, DATA_EXTENSION, result)
        /\ UNCHANGED directoryVars

\* DirectoryBackend(root), where root does not exist yet and its parent does
InitDirectory ==
    /\ heap = [i \in Inst |-> Free]
    /\ cache = EmptyDict
    /\ syncQueue = EmptyDict
    /\ backend = EmptyDict
    /\ forward = EmptyDict
    /\ backward = EmptyDict
    /\ meta = FALSE
    /\ last = [op |-> "-", key |-> <<>>, ext |-> "-", had |-> FALSE,
               raised |-> FALSE]
    /\ saved = EmptyDict
    /\ written = EmptyDict
    /\ latest = EmptyDict
    /\ pc = EmptyDict
    /\ lock = 0
    /\ stack = <<>>
    /\ constructed = EmptyDict
    /\ STORAGE = BoundSTORAGE
    /\ declaredClasses = BoundClasses
    /\ relations = EmptyDict
    /\ object = NoObject
    /\ now = 0
    /\ kind = "directory"
    /\ plain = EmptyDict
    /\ backends = <<>>
    /\ readBackend = 0
    /\ fileBackend = 0
    /\ COLLECTION = << >>
    /\ INDEXES = << >>
    /\ store = EmptyDict
    /\ dirs = {rootDir}

NextDirectory ==
    \/ \E op \in {"add", "update"}, key \in DirKeys, fails \in BOOLEAN :
           DirectoryWrite(op, key, "'OK'", fails)
    \/ \E key \in DirKeys, data \in {"b'OK'", None}, fails \in BOOLEAN :
           DirectorySaveRawData(key, data, fails)
    \/ \E key \in DirKeys : DirectoryRemove(key)

SpecDirectory == InitDirectory /\ [][NextDirectory]_vars

\* C31: the root directory exists after any sequence of add and remove, and
\* after remove(key) no directory between the root and the file of the key
\* is left empty.
C31_RemovePrunesBelowRoot ==
    /\ rootDir \in dirs
    /\ last.op = "remove" =>
           \A n \in 1 .. Len(last.key) - 1 :
               LET dir == rootDir \o SubSeq(last.key, 1, n)
                   listed == listdir(store, dirs, dir)
               IN  dir \in dirs => listed.files # {} \/ listed.dirs # {}

\* C32: when the write of add, update or saveRawData has failed, the call has
\* raised and there is no file at the path of the key.
C32_NoPartialFile ==
    last.raised =>
        /\ last.op \in {"add", "update", "saveRawData"}
        /\ path(last.key, last.ext) \notin DOMAIN store

\* C32 witness: an update whose write failed, of a key that had a file.
C32_Witness ==
    /\ last.op = "update" /\ last.raised /\ last.had
    /\ path(last.key, DATA_EXTENSION) \notin DOMAIN store

(***************************************************************************)
(* Further claims on the IndexStorage (specification SpecIndex)            *)
(***************************************************************************)
\* C34: no bucket of the forward backend lists a signature more than once,
\* whatever key lists add and update were given.
C34_SignatureListedOnce ==
    \A sig \in Keys, key \in IndexKeySet : Count(IndexGet(forward, key), sig) <= 1

\* C36: the forward and the backward backends are inverses of each other:
\* sig is listed under key exactly when key is in the backward entry of sig.
C36_ForwardBackwardInverse ==
    \A sig \in Keys, key \in IndexKeySet :
        Listed(sig, key) <=> key \in Elems(previousKeys(sig))

\* C36 witness: an update has taken a signature with several keys out of a
\* bucket that it was alone in, while another signature stays listed, and
\* the meta entry is written.
C36_Witness ==
    /\ last.op = "update" /\ last.many /\ last.emptied
    /\ meta
    /\ \E other \in Keys \ {last.sig}, key \in IndexKeySet : Listed(other, key)

(***************************************************************************)
(* Index.rebuild (specification SpecRebuild).  The index is in any state,  *)
(* consistent or not; the values given to rebuild are objects of different *)
(* signatures, as StoredObject.All yields them, each with the key list its *)
(* extractor returns.  `last` records the values given and whether the     *)
(* forward and backward backends were inverses before.                     *)
(***************************************************************************)
\* the sequences of different signatures
Orders == {order \in UNION {[1 .. n -> Keys] : n \in 0 .. Cardinality(Keys)} :
               \A m, n \in DOMAIN order : m # n => order[m] # order[n]}
\* what ByValue and ByValueMany return
ExtractedKeys == {<<key>> : key \in IndexKeySet}
                     \cup {<<key, 0 - key>> : key \in IndexKeySet}
\* the buckets a forward backend may hold
Buckets == {<<sig>> : sig \in Keys} \cup {<<sig, other>> : sig, other \in Keys}

\* mutant of IndexStorageClear: only the forward backend is cleared
IndexStorageClear_forwardOnly(fwd, bwd) == [forward |-> EmptyDict, backward |-> bwd]

\* IndexStorage.clear: MemoryBackend.clear on both backends
IndexStorageClear(fwd, bwd) == [forward |-> EmptyDict, backward |-> EmptyDict]

\* Index.rebuild, the loop: self.add(value) for each value
RECURSIVE rebuildAdd(_, _)
rebuildAdd(idx, values) ==
    IF values = <<>> THEN idx
    ELSE rebuildAdd(IndexStorageAdd(idx.forward, idx.backward, Head(values).sig,
                                    Head(values).keys),
                    Tail(values))

\* Index.rebuild(values)
rebuild(fwd, bwd, values) == rebuildAdd(IndexStorageClear(fwd, bwd), values)

\* index.rebuild(values); the meta entry, kept in the backward backend, is
\* cleared with it
Rebuild(order, keysOf) ==
    LET values == [n \in DOMAIN order |->
                      [sig |-> order[n], keys |-> keysOf[order[n]]]]
        idx == rebuild(forward, backward, values)
    IN  /\ forward' = idx.forward
        /\ backward' = idx.backward
        /\ meta' = FALSE
        /\ latest' = [sig \in Elems(order) |-> keysOf[sig]]
        /\ last' = [op |-> "rebuild", values |-> values,
                    inverse |-> \A sig \in Keys, key \in IndexKeySet :
                                    Listed(sig, key) <=>
                                        key \in Elems(previousKeys(sig))]
        /\ UNCHANGED objectVars

InitRebuild ==
    /\ heap = [i \in Inst |-> Free]
    /\ cache = EmptyDict
    /\ syncQueue = EmptyDict
    /\ backend = EmptyDict
    /\ forward \in UNION {[D -> Buckets] : D \in SUBSET IndexKeySet}
    /\ backward \in UNION {[D -> ExtractedKeys] : D \in SUBSET Keys}
    /\ meta \in BOOLEAN
    /\ last = [op |-> "-", values |-> <<>>, inverse |-> TRUE]
    /\ saved = EmptyDict
    /\ written = EmptyDict
    /\ latest = EmptyDict
    /\ pc = EmptyDict
    /\ lock = 0
    /\ stack = <<>>
    /\ constructed = EmptyDict
    /\ STORAGE = BoundSTORAGE
    /\ declaredClasses = BoundClasses
    /\ relations = EmptyDict
    /\ object = NoObject
    /\ now = 0
    /\ NoBackends

NextRebuild == \E order \in Orders, keysOf \in [Keys -> ExtractedKeys] :
                   Rebuild(order, keysOf)

SpecRebuild == InitRebuild /\ [][NextRebuild]_vars

\* C35: right after rebuild(values), whatever the backends held before, the
\* index lists sig under key exactly when sig is the signature of one of the
\* values and key is one of its extracted keys, and the backward backend has
\* an entry for the signatures of the values and for nothing else.
C35_RebuildRecovers ==
    last.op = "rebuild" =>
        /\ \A sig \in Keys, key \in IndexKeySet :
               Listed(sig, key) <=>
                   \E n \in DOMAIN last.values :
                       /\ last.values[n].sig = sig
                       /\ key \in Elems(last.values[n].keys)
        /\ DOMAIN forward \subseteq IndexKeySet
        /\ \A key \in DOMAIN forward : Elems(forward[key]) \subseteq Keys
        /\ DOMAIN backward = {last.values[n].sig : n \in DOMAIN last.values}
        /\ \A n \in DOMAIN last.values :
               backward[last.values[n].sig] = last.values[n].keys

\* C35 witness: a rebuild with one value has run on backends that were not
\* inverses of each other; the signature that is not given is listed nowhere.
C35_Witness ==
    /\ last.op = "rebuild" /\ ~last.inverse
    /\ Len(last.values) = 1
    /\ Cardinality(DOMAIN backward) = 1

(***************************************************************************)
(* The class attributes COLLECTION and INDEXES (specification SpecClasses). *)
(* Parent and Other are subclasses of StoredObject, Child is a subclass of *)
(* Parent; each may declare a COLLECTION and an INDEXES list of its own.   *)
(* COLLECTION[c] and INDEXES[c] are what the class c itself has; a class   *)
(* that has none gives that of the nearest base class that has one.  An    *)
(* index is named after the class it was made for and added with.  `last`  *)
(* records a call: the class, the storage key returned or the indexes      *)
(* that were driven.                                                       *)
(***************************************************************************)
Subclasses == {"Parent", "Child", "Other"}
base == [c \in Subclasses |-> IF c = "Child" THEN "Parent" ELSE "StoredObject"]
\* the class has no such attribute of its own
Unset == "unset"
\* the COLLECTION a class declares, when it declares one
Declared == [c \in Subclasses |->
                IF c = "Parent" THEN "parents"
                ELSE IF c = "Child" THEN "children" ELSE "others"]

\* whether d is c or a base class of c
RECURSIVE IsA(_, _)
IsA(c, d) == c = d \/ (c \in Subclasses /\ IsA(base[c], d))

\* cls.COLLECTION: the attribute of the class or of its nearest base class
RECURSIVE getCOLLECTION(_, _)
getCOLLECTION(C, c) == IF C[c] # Unset THEN C[c] ELSE getCOLLECTION(C, base[c])

\* the class whose list cls.INDEXES is
RECURSIVE ownerOfINDEXES(_, _)
ownerOfINDEXES(I, c) == IF I[c].own THEN c ELSE ownerOfINDEXES(I, base[c])
getINDEXES(I, c) == I[ownerOfINDEXES(I, c)].list

\* StoredObject.StorageKey and StoragePrefix: a COLLECTION that is None is
\* assigned, on the class, the name of the class
defaulted(C, c) ==
    IF getCOLLECTION(C, c) # None THEN C ELSE [C EXCEPT ![c] = c]

\* StoredObject.AddIndex: cls.INDEXES.append(index) unless it is in the list
addIndex(I, c, index) ==
    IF index \in Elems(getINDEXES(I, c)) THEN I
    ELSE [I EXCEPT ![ownerOfINDEXES(I, c)].list = Append(@, index)]

ClassOp(op, c, oid, key, calls) ==
    [op |-> op, cls |-> c, oid |-> oid, key |-> key, calls |-> calls]

classesVars == <<heap, cache, syncQueue, backend, forward, backward, meta, saved,
                 written, latest, pc, lock, stack, constructed, STORAGE,
                 declaredClasses, relations, object, now, backendVars>>

\* cls.StorageKey(oid)
StorageKeyCall(c, oid) ==
    /\ COLLECTION' = defaulted(COLLECTION, c)
    /\ last' = ClassOp("StorageKey", c, oid, <<getCOLLECTION(COLLECTION', c), oid>>,
                       <<>>)
    /\ UNCHANGED <<INDEXES, classesVars>>

\* cls.StoragePrefix()
StoragePrefixCall(c) ==
    /\ COLLECTION' = defaulted(COLLECTION, c)
    /\ last' = ClassOp("StoragePrefix", c, "-", <<getCOLLECTION(COLLECTION', c), "-">>,
                       <<>>)
    /\ UNCHANGED <<INDEXES, classesVars>>

\* cls.AddIndex(index), for the index made for cls
AddIndexCall(c) ==
    /\ INDEXES' = addIndex(INDEXES, c, c)
    /\ last' = ClassOp("AddIndex", c, "-", NoKey, <<>>)
    /\ UNCHANGED <<COLLECTION, classesVars>>

\* ObjectStorage.add of an instance of cls (create, update, save): add or
\* update and save are called on every index of storedObject.INDEXES
StoreInstance(c) ==
    /\ last' = ClassOp("add", c, "-", NoKey, getINDEXES(INDEXES, c))
    /\ UNCHANGED <<COLLECTION, INDEXES, classesVars>>

\* ObjectStorage.remove of an instance of cls: remove and save are called on
\* every index of old_value.INDEXES
RemoveInstance(c) ==
    /\ last' = ClassOp("remove", c, "-", NoKey, getINDEXES(INDEXES, c))
    /\ UNCHANGED <<COLLECTION, INDEXES, classesVars>>

\* the classes as they are declared: StoredObject has COLLECTION = None and
\* INDEXES = []
InitClasses ==
    /\ heap = [i \in Inst |-> Free]
    /\ cache = EmptyDict
    /\ syncQueue = EmptyDict
    /\ backend = EmptyDict
    /\ forward = EmptyDict
    /\ backward = EmptyDict
    /\ meta = FALSE
    /\ last = ClassOp("-", "-", "-", NoKey, <<>>)
    /\ saved = EmptyDict
    /\ written = EmptyDict
    /\ latest = EmptyDict
    /\ pc = EmptyDict
    /\ lock = 0
    /\ stack = <<>>
    /\ constructed = EmptyDict
    /\ STORAGE = BoundSTORAGE
    /\ declaredClasses = BoundClasses
    /\ relations = EmptyDict
    /\ object = NoObject
    /\ now = 0
    /\ kind = "-"
    /\ store = << >>
    /\ plain = << >>
    /\ backends = <<>>
    /\ readBackend = 0
    /\ fileBackend = 0
    /\ dirs = {}
    /\ \E declares \in SUBSET Subclasses :
           COLLECTION = [c \in Subclasses \cup {"StoredObject"} |->
                            IF c \in declares THEN Declared[c]
                            ELSE IF c = "StoredObject" THEN None ELSE Unset]
    /\ \E declares \in SUBSET Subclasses :
           INDEXES = [c \in Subclasses \cup {"StoredObject"} |->
                         [own |-> c \in declares \cup {"StoredObject"},
                          list |-> <<>>]]

NextClasses ==
    \/ \E c \in Subclasses, oid \in Oids : StorageKeyCall(c, oid)
    \/ \E c \in Subclasses : StoragePrefixCall(c)
    \/ \E c \in Subclasses : AddIndexCall(c)
    \/ \E c \in Subclasses : StoreInstance(c)
    \/ \E c \in Subclasses : RemoveInstance(c)

SpecClasses == InitClasses /\ [][NextClasses]_vars

\* C33: the storage key a class gives for an oid is made of the COLLECTION
\* the class itself declares, or else of the name of the class itself,
\* whichever classes were asked for a key or a prefix before (stated for the
\* classes none of whose base classes declares a COLLECTION).
C33_KeyOfOwnCollection ==
    (/\ last.op = "StorageKey"
     /\ \A d \in Subclasses \ {last.cls} :
            IsA(last.cls, d) => COLLECTION[d] # Declared[d]) =>
        last.key = <<IF COLLECTION[last.cls] = Declared[last.cls]
                     THEN Declared[last.cls] ELSE last.cls,
                     last.oid>>

\* C40: the indexes driven by the create, update or remove of an instance
\* of a class were each added with that class or with one of its base
\* classes.
C40_IndexOfOwnClass ==
    last.op \in {"add", "remove"} =>
        \A n \in DOMAIN last.calls : IsA(last.cls, last.calls[n])

====
